---- MODULE Spec2Model ----
(***************************************************************************)
(* Order routing and resiliency layer of BinanceFuturesClient              *)
(* (src/binance_futures_python/client.py).                                 *)
(*                                                                         *)
(* A Python value is a record [t, s, n, j]: t is the type tag, s the       *)
(* characters of a str, n the number of an int (1/0 for a bool), j the     *)
(* items of a list or the key/value pairs of a dict.  A dict is a sequence *)
(* of [k, v] pairs with pairwise different keys, in insertion order.       *)
(*                                                                         *)
(* calls: the invocations of _request made by the current call; wire: the  *)
(* requests handed to session.request; sent: the HTTP attempts made for    *)
(* the latest of them, each naming the entry of wire it transmits; resps:  *)
(* what session.request came back with, one entry per entry of wire.       *)
(* theirs: the mappings the caller passed (the orders of a batch, or the   *)
(* mapping unpacked into keyword arguments), as they are now.              *)
(***************************************************************************)
EXTENDS Integers, Sequences, FiniteSets, TLC

VARIABLES client, call, pc, frame, calls, wire, sent, resps, outcome, theirs

vars == <<client, call, pc, frame, calls, wire, sent, resps, outcome, theirs>>

-----------------------------------------------------------------------------
(* Bounds of the model *)

\* longest batch handed to new_batch_orders
MaxBatch == 3

-----------------------------------------------------------------------------
(* Python values *)

None == [t |-> "none", s |-> <<>>, n |-> 0, j |-> <<>>]
Str(chars) == [t |-> "str", s |-> chars, n |-> 0, j |-> <<>>]
Int_(i) == [t |-> "int", s |-> <<>>, n |-> i, j |-> <<>>]
Bool(b) == [t |-> "bool", s |-> <<>>, n |-> IF b THEN 1 ELSE 0, j |-> <<>>]
List(items) == [t |-> "list", s |-> <<>>, n |-> 0, j |-> items]
Dict(pairs) == [t |-> "dict", s |-> <<>>, n |-> 0, j |-> pairs]
\* json.dumps(items): the text that decodes to items
JsonDumps(items) == [t |-> "json", s |-> <<>>, n |-> 0, j |-> items]
True == Bool(TRUE)
False == Bool(FALSE)

\* bool(v): Python truthiness
Truthy(v) ==
    CASE v.t = "none" -> FALSE
      [] v.t = "bool" -> v.n = 1
      [] v.t = "int" -> v.n # 0
      [] v.t = "str" -> v.s # <<>>
      [] OTHER -> v.j # <<>>

LowerAlpha == <<"a","b","c","d","e","f","g","h","i","j","k","l","m",
                "n","o","p","q","r","s","t","u","v","w","x","y","z">>
UpperAlpha == <<"A","B","C","D","E","F","G","H","I","J","K","L","M",
                "N","O","P","Q","R","S","T","U","V","W","X","Y","Z">>

ToUpper == [c \in {LowerAlpha[i] : i \in DOMAIN LowerAlpha} |->
               UpperAlpha[CHOOSE i \in DOMAIN LowerAlpha : LowerAlpha[i] = c]]
ToLower == [c \in {UpperAlpha[i] : i \in DOMAIN UpperAlpha} |->
               LowerAlpha[CHOOSE i \in DOMAIN UpperAlpha : UpperAlpha[i] = c]]
UpChar(c) == IF c \in DOMAIN ToUpper THEN ToUpper[c] ELSE c
LowChar(c) == IF c \in DOMAIN ToLower THEN ToLower[c] ELSE c

\* str.upper() and str.lower(): letter by letter, everything else kept
Upper(chars) == [i \in DOMAIN chars |-> UpChar(chars[i])]
Lower(chars) == [i \in DOMAIN chars |-> LowChar(chars[i])]

Digits == <<"0","1","2","3","4","5","6","7","8","9">>
RECURSIVE NatStr(_)
NatStr(i) == IF i < 10 THEN <<Digits[i + 1]>> ELSE NatStr(i \div 10) \o <<Digits[(i % 10) + 1]>>

\* str(v) for the scalars that reach it
PyStr(v) ==
    CASE v.t = "str" -> v.s
      [] v.t = "none" -> <<"N","o","n","e">>
      [] v.t = "bool" -> IF v.n = 1 THEN <<"T","r","u","e">> ELSE <<"F","a","l","s","e">>
      [] v.t = "int" -> IF v.n < 0 THEN <<"-">> \o NatStr(-v.n) ELSE NatStr(v.n)
      [] OTHER -> <<"<","o","b","j",">">>

-----------------------------------------------------------------------------
(* dict operations *)

Has(d, key) == \E i \in DOMAIN d : d[i].k = key
\* d.get(key): None when the key is absent
Get(d, key) == IF Has(d, key) THEN d[CHOOSE i \in DOMAIN d : d[i].k = key].v ELSE None
\* d.get(key, default)
GetOr(d, key, default) == IF Has(d, key) THEN Get(d, key) ELSE default
\* d[key] = v: an existing key keeps its position, a new key goes last
Set(d, key, v) ==
    IF Has(d, key)
    THEN [i \in DOMAIN d |-> IF d[i].k = key THEN [k |-> key, v |-> v] ELSE d[i]]
    ELSE Append(d, [k |-> key, v |-> v])
\* d.setdefault(key, v)
SetDefault(d, key, v) == IF Has(d, key) THEN d ELSE Append(d, [k |-> key, v |-> v])
\* del d[key] / d.pop(key, ...): the remaining pairs keep their order
Del(d, key) == SelectSeq(d, LAMBDA p : p.k # key)
\* {**a, **b}
RECURSIVE Merge(_, _)
Merge(a, b) == IF b = <<>> THEN a ELSE Merge(Set(a, Head(b).k, Head(b).v), Tail(b))
Keys(d) == {d[i].k : i \in DOMAIN d}

-----------------------------------------------------------------------------
(* Text constants of the client *)

STOP_MARKET == <<"S","T","O","P","_","M","A","R","K","E","T">>
TAKE_PROFIT_MARKET == <<"T","A","K","E","_","P","R","O","F","I","T","_","M","A","R","K","E","T">>
STOP == <<"S","T","O","P">>
TAKE_PROFIT == <<"T","A","K","E","_","P","R","O","F","I","T">>
TRAILING_STOP_MARKET == <<"T","R","A","I","L","I","N","G","_","S","T","O","P","_","M","A","R","K","E","T">>
MARKET == <<"M","A","R","K","E","T">>
LIMIT == <<"L","I","M","I","T">>
CONDITIONAL == <<"C","O","N","D","I","T","I","O","N","A","L">>
TrueText == <<"t","r","u","e">>

\* variant: the trailing-stop type is left out of the set
CONDITIONAL_ORDER_TYPES_without_trailing == {STOP_MARKET, TAKE_PROFIT_MARKET, STOP, TAKE_PROFIT}
CONDITIONAL_ORDER_TYPES == {STOP_MARKET, TAKE_PROFIT_MARKET, STOP, TAKE_PROFIT, TRAILING_STOP_MARKET}
ORDER_NOT_FOUND_CODES == {Int_(-2013), Int_(-2011)}
MigrationCode == Int_(-4120)
MAINNET_URL == "https://fapi.binance.com"

OrderPath == "/fapi/v1/order"
AlgoOrderPath == "/fapi/v1/algoOrder"
BatchOrdersPath == "/fapi/v1/batchOrders"
OrderTestPath == "/fapi/v1/order/test"

-----------------------------------------------------------------------------
(* Errors: the exception class, and for an API error the fields its        *)
(* constructor stores; src is the position in resps of the response the    *)
(* error was built from (0 for an error raised locally).                   *)

NoError == [cls |-> "none", why |-> "", code |-> None, status |-> 0, payload |-> None, missing |-> <<>>, src |-> 0]
ValueError(why, missing) == [NoError EXCEPT !.cls = "ValueError", !.why = why, !.missing = missing]
TypeError == [NoError EXCEPT !.cls = "TypeError"]
NetworkError(src) == [NoError EXCEPT !.cls = "RuntimeError", !.src = src]
JSONDecodeError(src) == [NoError EXCEPT !.cls = "JSONDecodeError", !.src = src]

\* BinanceFuturesAPIError.__init__: error_code is payload["code"] of a dict payload
APIErrorCode(payload) == IF payload.t = "dict" THEN Get(payload.j, "code") ELSE None

IsAPIError(e) == e.cls \in {"BinanceFuturesAPIError", "ConditionalOrderMigratedError"}

-----------------------------------------------------------------------------
(* Internals *)

\* _clean_params: the pairs whose value is not None
_clean_params(params) == SelectSeq(params, LAMBDA p : p.v # None)

\* variant: the check stops at the first missing field
MissingFields_first_only(params, fields) ==
    LET all == SelectSeq(fields, LAMBDA f : Get(params, f) = None)
    IN  IF all = <<>> THEN <<>> ELSE <<Head(all)>>

\* the fields _ensure_required reports, in the order of `fields`
MissingFields(params, fields) == SelectSeq(fields, LAMBDA f : Get(params, f) = None)

\* _ensure_required raises exactly when a field is missing
_ensure_required(params, fields) ==
    IF MissingFields(params, fields) # <<>> THEN ValueError("missing", MissingFields(params, fields))
    ELSE NoError

\* _normalize_order_type: str(order_type).upper()
_normalize_order_type(order_type) == Upper(PyStr(order_type))

\* _is_conditional_type, applied to an already normalized type text
_is_conditional_type(order_type) ==
    IF order_type = <<>> THEN FALSE
    ELSE Upper(order_type) \in CONDITIONAL_ORDER_TYPES

\* variant: closePosition is compared without lower-casing
ClosePositionIsTrue_case_sensitive(params) == PyStr(GetOr(params, "closePosition", Str(<<>>))) = TrueText

\* _prepare_algo_order_params: the closePosition guardrail
ClosePositionIsTrue(params) == Lower(PyStr(GetOr(params, "closePosition", Str(<<>>)))) = TrueText
_prepare_algo_order_params(params) ==
    IF ClosePositionIsTrue(params) THEN Del(Del(params, "quantity"), "reduceOnly") ELSE params

\* variant: HTTP 404 without a not-found code does not count
_is_order_not_found_codes_only(exc) == exc.code \in ORDER_NOT_FOUND_CODES

\* _is_order_not_found
_is_order_not_found(exc) == exc.code \in ORDER_NOT_FOUND_CODES \/ exc.status = 404

\* variant: only the API key is looked at
_require_credentials_key_only(c) ==
    IF ~Truthy(c.api_key) THEN ValueError("credentials", <<>>) ELSE NoError

\* _require_credentials, then _sign_params' own check of the secret
_require_credentials(c) ==
    IF ~Truthy(c.api_key) \/ ~Truthy(c.api_secret) THEN ValueError("credentials", <<>>) ELSE NoError

\* urlencode(params, doseq=True): key=str(value) pairs in insertion order
UrlEncode(params) ==
    [i \in DOMAIN params |->
        [k |-> params[i].k,
         v |-> IF params[i].v.t = "json" THEN params[i].v ELSE Str(PyStr(params[i].v))]]

\* hmac.new(secret, query, sha256).hexdigest(): a digest stands for its inputs
Hmac(secret, query) == [t |-> "hmac", s |-> PyStr(secret), n |-> 0, j |-> query]

\* variant: the signature is computed over the clock reading, also when the
\* parameters bring their own timestamp
_sign_params_signs_clock_reading(c, params, now) ==
    LET p1 == SetDefault(params, "timestamp", Int_(now))
        p2 == SetDefault(p1, "recvWindow", Int_(c.recv_window))
    IN  Set(p2, "signature", Hmac(c.api_secret, UrlEncode(Set(p2, "timestamp", Int_(now)))))

\* variant: timestamp and recvWindow are assigned, not defaulted
_sign_params_overwrites(c, params, now) ==
    LET p1 == Set(params, "timestamp", Int_(now))
        p2 == Set(p1, "recvWindow", Int_(c.recv_window))
    IN  Set(p2, "signature", Hmac(c.api_secret, UrlEncode(p2)))

\* _sign_params at clock reading `now`
_sign_params(c, params, now) ==
    LET p1 == SetDefault(params, "timestamp", Int_(now))
        p2 == SetDefault(p1, "recvWindow", Int_(c.recv_window))
    IN  Set(p2, "signature", Hmac(c.api_secret, UrlEncode(p2)))

\* variant: every error is built as the base class
_raise_api_error_always_base(resp, src) ==
    LET payload == IF resp.json THEN resp.body
                   ELSE IF resp.body.s = <<>> THEN Str(<<"<","e","m","p","t","y",">">>) ELSE resp.body
    IN  [cls |-> "BinanceFuturesAPIError",
         why |-> "api", code |-> APIErrorCode(payload), status |-> resp.status, payload |-> payload,
         missing |-> <<>>, src |-> src]

\* _raise_api_error: the exception built from a response that is not ok
_raise_api_error(resp, src) ==
    LET payload == IF resp.json THEN resp.body
                   ELSE IF resp.body.s = <<>> THEN Str(<<"<","e","m","p","t","y",">">>) ELSE resp.body
        error_code == APIErrorCode(payload)
    IN  [cls |-> IF error_code = MigrationCode THEN "ConditionalOrderMigratedError"
                 ELSE "BinanceFuturesAPIError",
         why |-> "api", code |-> error_code, status |-> resp.status, payload |-> payload,
         missing |-> <<>>, src |-> src]

-----------------------------------------------------------------------------
(* The client object *)

\* a keyword argument of the constructor or of a call: given or left out
OptBool(arg, default) == IF arg = "default" THEN default ELSE arg = "true"
\* a numeric keyword argument: <<>> when left out, <<n>> when given
OptInt(arg, default) == IF arg = <<>> THEN default ELSE arg[1]

\* Retry(status_forcelist=(429, 500, 502, 503, 504))
status_forcelist == {429, 500, 502, 503, 504}

\* BinanceFuturesClient.__init__; args keeps what the caller passed
__init__(api_key, api_secret, auto_switch, attempt_algo, max_retries) ==
    [api_key |-> api_key,
     api_secret |-> api_secret,
     recv_window |-> 5000,
     base_url |-> MAINNET_URL,
     auto_switch_conditional_to_algo |-> OptBool(auto_switch, TRUE),
     attempt_algo_on_not_found |-> OptBool(attempt_algo, FALSE),
     \* Retry(total=max_retries) of the adapter mounted on the session
     max_retries |-> OptInt(max_retries, 3),
     args |-> [auto_switch |-> auto_switch, attempt_algo |-> attempt_algo]]

-----------------------------------------------------------------------------
(* Calls, requests and results *)

NoCall == [name |-> "idle", params |-> <<>>, flag |-> "default", orders |-> <<>>]
Call(name, params) == [NoCall EXCEPT !.name = name, !.params = params]

\* one invocation of _request
NoReq == [method |-> "none", path |-> "", params |-> <<>>, signed |-> FALSE]
Req(method, path, params) == [method |-> method, path |-> path, params |-> params, signed |-> TRUE]

NoOutcome == [kind |-> "none", value |-> None, err |-> NoError]
Ok(value) == [kind |-> "ok", value |-> value, err |-> NoError]
Raise(err) == [kind |-> "error", value |-> None, err |-> err]

\* what the handler still has to do once the pending request is answered
NoFrame == [k |-> "none", caller |-> "top", params |-> <<>>, lookup |-> "none",
            algo_id |-> None, fb |-> FALSE, todo |-> <<>>, acc |-> None]

\* a handler either ends (out) or invokes _request (req) and continues in frame
Finish(out) == [req |-> NoReq, out |-> out, frame |-> NoFrame]
Invoke(req, fr) == [req |-> req, out |-> NoOutcome, frame |-> fr]

\* int(time.time() * 1000) when the n-th request of the run is signed: the
\* clock advances between requests
ClockReading(n) == n

\* the keyword arguments _request hands to session.request
SessionRequest(c, req, now) ==
    LET cleaned == _clean_params(req.params)
        params == IF req.signed THEN _sign_params(c, cleaned, now) ELSE cleaned
    IN  [method |-> req.method,
         url |-> <<c.base_url, req.path>>,
         params |-> IF req.method = "GET" THEN Dict(params) ELSE None,
         data |-> IF req.method # "GET" THEN Dict(params) ELSE None,
         headers |-> IF req.signed THEN <<[k |-> "X-MBX-APIKEY", v |-> c.api_key]>> ELSE <<>>]

\* the parameters a request carries on the wire, in the query or in the body
WireParams(http) == IF http.method = "GET" THEN http.params.j ELSE http.data.j

\* _request up to the HTTP exchange: credentials are checked before anything
\* is sent; session.request then makes its first attempt
Apply(step) ==
    IF step.req = NoReq
    THEN /\ outcome' = step.out
         /\ pc' = "done"
         /\ frame' = NoFrame
         /\ UNCHANGED <<calls, wire, sent>>
    ELSE /\ calls' = Append(calls, step.req)
         /\ IF step.req.signed /\ _require_credentials(client) # NoError
            THEN /\ outcome' = Raise(_require_credentials(client))
                 /\ pc' = "done"
                 /\ frame' = NoFrame
                 /\ UNCHANGED <<wire, sent>>
            ELSE /\ wire' = Append(wire, SessionRequest(client, step.req, ClockReading(Len(wire) + 1)))
                 /\ sent' = <<Len(wire) + 1>>
                 /\ pc' = "wait"
                 /\ frame' = step.frame
                 /\ UNCHANGED outcome

-----------------------------------------------------------------------------
(* Whose mapping a handler writes to: "caller" for a mapping the caller      *)
(* holds, "local" for one only the handler holds                             *)

\* f(**d): the callee's params is a mapping of its own
kwargs(owner) == "local"

\* variant: order_copy = order, the same mapping under another name
dict_copy_same_mapping(owner) == owner

\* d.copy(): a new mapping with the same items
dict_copy(owner) == "local"

\* the caller's mapping once the handler wrote to the mapping of `owner`
\* what turns `before` into `after`
Written(owner, before, after) == IF owner = "caller" THEN after ELSE before

-----------------------------------------------------------------------------
(* Handlers up to their first request *)

\* variant: algoType is only defaulted, so a caller-supplied value survives
new_algo_order_keeps_caller_algo_type(params, caller, todo, acc) ==
    IF _ensure_required(params, <<"symbol", "side", "type">>) # NoError
    THEN Finish(Raise(_ensure_required(params, <<"symbol", "side", "type">>)))
    ELSE LET p1 == _prepare_algo_order_params(params)
             p2 == Set(p1, "type", Str(_normalize_order_type(Get(p1, "type"))))
             p3 == SetDefault(p2, "algoType", Str(CONDITIONAL))
         IN  Invoke(Req("POST", AlgoOrderPath, p3),
                    [NoFrame EXCEPT !.k = "algo_create", !.caller = caller,
                                    !.todo = todo, !.acc = acc])

\* new_algo_order(**params)
new_algo_order(params, caller, todo, acc) ==
    IF _ensure_required(params, <<"symbol", "side", "type">>) # NoError
    THEN Finish(Raise(_ensure_required(params, <<"symbol", "side", "type">>)))
    ELSE LET p1 == _prepare_algo_order_params(params)
             p2 == Set(p1, "type", Str(_normalize_order_type(Get(p1, "type"))))
             p3 == Set(p2, "algoType", Str(CONDITIONAL))
         IN  Invoke(Req("POST", AlgoOrderPath, p3),
                    [NoFrame EXCEPT !.k = "algo_create", !.caller = caller,
                                    !.todo = todo, !.acc = acc])

\* variant: the type is not looked at, every order of an auto-routing client
\* goes to the conditional endpoint
new_order_routes_by_flag_only(c, params) ==
    IF _ensure_required(params, <<"symbol", "side", "type">>) # NoError
    THEN Finish(Raise(_ensure_required(params, <<"symbol", "side", "type">>)))
    ELSE LET order_type == _normalize_order_type(Get(params, "type"))
             p1 == Set(params, "type", Str(order_type))
             force_rest_route == Truthy(GetOr(p1, "_force_rest_route", False))
             p2 == Del(p1, "_force_rest_route")
         IN  IF c.auto_switch_conditional_to_algo /\ ~force_rest_route
             THEN new_algo_order(p2, "top", <<>>, None)
             ELSE Invoke(Req("POST", OrderPath, p2),
                         [NoFrame EXCEPT !.k = "rest_order", !.params = p2])

\* new_order(**params)
new_order(c, params) ==
    IF _ensure_required(params, <<"symbol", "side", "type">>) # NoError
    THEN Finish(Raise(_ensure_required(params, <<"symbol", "side", "type">>)))
    ELSE LET order_type == _normalize_order_type(Get(params, "type"))
             p1 == Set(params, "type", Str(order_type))
             force_rest_route == Truthy(GetOr(p1, "_force_rest_route", False))
             p2 == Del(p1, "_force_rest_route")
         IN  IF c.auto_switch_conditional_to_algo /\ _is_conditional_type(order_type)
                /\ ~force_rest_route
             THEN new_algo_order(p2, "top", <<>>, None)
             ELSE Invoke(Req("POST", OrderPath, p2),
                         [NoFrame EXCEPT !.k = "rest_order", !.params = p2])

\* new_test_order(**params)
new_test_order(params) ==
    IF _ensure_required(params, <<"symbol", "side", "type">>) # NoError
    THEN Finish(Raise(_ensure_required(params, <<"symbol", "side", "type">>)))
    ELSE LET order_type == _normalize_order_type(Get(params, "type"))
         IN  IF _is_conditional_type(order_type)
             THEN Finish(Raise(ValueError("conditional_test_order", <<>>)))
             ELSE Invoke(Req("POST", OrderTestPath, Set(params, "type", Str(order_type))), NoFrame)

\* new_stop_loss_order / new_take_profit_order / new_trailing_stop_order:
\* `required` and `order_type` are what tells the three apart
algo_helper(params, required, order_type) ==
    IF _ensure_required(params, required) # NoError
    THEN Finish(Raise(_ensure_required(params, required)))
    ELSE LET params_copy == Set(_prepare_algo_order_params(params), "type", Str(order_type))
         IN  new_algo_order(params_copy, "helper", <<>>, None)

\* what the writes of a handler make of the mapping they are made to: none
\* when _ensure_required raises first
IfRequired(params, fields, after) == IF _ensure_required(params, fields) = NoError THEN after ELSE params
AlgoParams(params) ==
    IfRequired(params, <<"symbol", "side", "type">>,
               Set(Set(_prepare_algo_order_params(params), "type",
                       Str(_normalize_order_type(Get(params, "type")))),
                   "algoType", Str(CONDITIONAL)))
HelperParams(params, required, order_type) ==
    IfRequired(params, required, Set(_prepare_algo_order_params(params), "type", Str(order_type)))

new_stop_loss_order(params) == algo_helper(params, <<"symbol", "side", "stopPrice">>, STOP_MARKET)
new_take_profit_order(params) == algo_helper(params, <<"symbol", "side", "stopPrice">>, TAKE_PROFIT_MARKET)
new_trailing_stop_order(params) == algo_helper(params, <<"symbol", "side", "callbackRate">>, TRAILING_STOP_MARKET)

\* query_algo_order(**params) and cancel_algo_order(**params)
query_algo_order(params) ==
    IF _ensure_required(params, <<"algoId">>) # NoError
    THEN Finish(Raise(_ensure_required(params, <<"algoId">>)))
    ELSE Invoke(Req("GET", AlgoOrderPath, params), [NoFrame EXCEPT !.k = "plain"])

cancel_algo_order(params) ==
    IF _ensure_required(params, <<"symbol", "algoId">>) # NoError
    THEN Finish(Raise(_ensure_required(params, <<"symbol", "algoId">>)))
    ELSE Invoke(Req("DELETE", AlgoOrderPath, params), [NoFrame EXCEPT !.k = "plain"])

\* the conditional-endpoint call of query_order (lookup = "query") or cancel_order
algo_lookup(lookup, algo_id, symbol) ==
    IF lookup = "query"
    THEN query_algo_order(<<[k |-> "algoId", v |-> algo_id], [k |-> "symbol", v |-> symbol]>>)
    ELSE cancel_algo_order(<<[k |-> "symbol", v |-> symbol], [k |-> "algoId", v |-> algo_id]>>)

\* variant: the algoOrderId alias is not read
PopAlgoId_without_alias(params) == [algo_id |-> Get(params, "algoId"), params |-> Del(params, "algoId")]

\* params.pop("algoOrderId", None) or params.pop("algoId", None): the second pop
\* runs only when the first value is falsy
PopAlgoId(params) ==
    LET first == Get(params, "algoOrderId")
        p1 == Del(params, "algoOrderId")
    IN  IF Truthy(first)
        THEN [algo_id |-> first, params |-> p1]
        ELSE [algo_id |-> Get(p1, "algoId"), params |-> Del(p1, "algoId")]

\* prefer_algo_direct of query_order / cancel_order
PreferAlgoDirect(algo_id, params) ==
    /\ algo_id # None
    /\ ~Truthy(Get(params, "orderId"))
    /\ ~Truthy(Get(params, "origClientOrderId"))

\* variant: the client's setting is not overridden by a per-call False
FallbackEnabled_client_setting_sticks(c, allow_algo_fallback) ==
    c.attempt_algo_on_not_found \/ allow_algo_fallback = "true"

\* fallback_enabled of query_order / cancel_order
FallbackEnabled(c, allow_algo_fallback) ==
    IF allow_algo_fallback = "default" THEN c.attempt_algo_on_not_found
    ELSE allow_algo_fallback = "true"

\* query_order / cancel_order (the two differ in the HTTP verb and the algo call)
order_lookup(c, lookup, allow_algo_fallback, params0) ==
    LET popped == PopAlgoId(params0)
        algo_id == popped.algo_id
        params == popped.params
        prefer_algo_direct == PreferAlgoDirect(algo_id, params)
        fallback_enabled == FallbackEnabled(c, allow_algo_fallback)
    IN  IF prefer_algo_direct
        THEN algo_lookup(lookup, algo_id, Get(params, "symbol"))
        ELSE IF _ensure_required(params, <<"symbol">>) # NoError
        THEN Finish(Raise(_ensure_required(params, <<"symbol">>)))
        ELSE Invoke(Req(IF lookup = "query" THEN "GET" ELSE "DELETE", OrderPath, params),
                    [NoFrame EXCEPT !.k = "lookup", !.lookup = lookup, !.params = params,
                                    !.algo_id = algo_id, !.fb = fallback_enabled])

query_order(c, allow_algo_fallback, params) == order_lookup(c, "query", allow_algo_fallback, params)
cancel_order(c, allow_algo_fallback, params) == order_lookup(c, "cancel", allow_algo_fallback, params)

\* new_batch_orders: the loop over `orders`, one copy per order
NormalizedCopy(order) == Set(order, "type", Str(_normalize_order_type(Get(order, "type"))))
RECURSIVE FirstInvalid(_)
FirstInvalid(orders) ==
    IF orders = <<>> THEN NoError
    ELSE IF _ensure_required(Head(orders), <<"symbol", "side", "type">>) # NoError
    THEN _ensure_required(Head(orders), <<"symbol", "side", "type">>)
    ELSE FirstInvalid(Tail(orders))
\* the caller's orders after the loop: order_copy = order.copy(), then
\* order_copy["type"] = ..., up to the order _ensure_required refuses
RECURSIVE OrdersAfterLoop(_)
OrdersAfterLoop(orders) ==
    IF orders = <<>> THEN <<>>
    ELSE IF _ensure_required(Head(orders), <<"symbol", "side", "type">>) # NoError THEN orders
    ELSE <<Written(dict_copy("caller"), Head(orders), NormalizedCopy(Head(orders)))>>
         \o OrdersAfterLoop(Tail(orders))
IsConditionalOrder(order) == _is_conditional_type(Get(NormalizedCopy(order), "type").s)
ConditionalOrders(orders) ==
    LET sel == SelectSeq(orders, IsConditionalOrder)
    IN  [i \in DOMAIN sel |-> NormalizedCopy(sel[i])]
\* variant: the else branch is lost and every order lands in regular_orders
RegularOrders_unfiltered(orders) == [i \in DOMAIN orders |-> NormalizedCopy(orders[i])]
RegularOrders(orders) ==
    LET sel == SelectSeq(orders, LAMBDA o : ~IsConditionalOrder(o))
    IN  [i \in DOMAIN sel |-> NormalizedCopy(sel[i])]

\* variant: auto_split_conditional is not consulted
BatchRejected_flag_ignored(conditional_orders, auto_split_conditional) == FALSE

\* new_batch_orders refuses a batch with conditional orders when auto-split is off
BatchRejected(conditional_orders, auto_split_conditional) ==
    conditional_orders # <<>> /\ ~OptBool(auto_split_conditional, TRUE)

EmptyBatchResult == Dict(<<[k |-> "regular", v |-> None], [k |-> "conditional", v |-> List(<<>>)]>>)

\* new_batch_orders: the loop over conditional_orders, from the order at Head(todo)
batch_conditional(todo, acc) ==
    IF todo = <<>> THEN Finish(Ok(acc))
    ELSE new_algo_order(Head(todo), "batch", Tail(todo), acc)

\* new_batch_orders(orders, auto_split_conditional=..., **params)
new_batch_orders(orders, auto_split_conditional, params) ==
    LET shared_params == _clean_params(params)
        conditional_orders == ConditionalOrders(orders)
        regular_orders == RegularOrders(orders)
        \* order_payload = {**shared_params, **order} of each conditional order
        payloads == [i \in DOMAIN conditional_orders |-> Merge(shared_params, conditional_orders[i])]
    IN  IF orders = <<>> THEN Finish(Raise(ValueError("empty_batch", <<>>)))
        ELSE IF FirstInvalid(orders) # NoError THEN Finish(Raise(FirstInvalid(orders)))
        ELSE IF BatchRejected(conditional_orders, auto_split_conditional)
        THEN Finish(Raise(ValueError("conditional_in_batch", <<>>)))
        ELSE IF regular_orders # <<>>
        THEN Invoke(Req("POST", BatchOrdersPath,
                        Merge(<<[k |-> "batchOrders",
                                 v |-> JsonDumps([i \in DOMAIN regular_orders |-> Dict(regular_orders[i])])]>>,
                              shared_params)),
                    [NoFrame EXCEPT !.k = "batch_regular", !.todo = payloads, !.acc = EmptyBatchResult])
        ELSE batch_conditional(payloads, EmptyBatchResult)

-----------------------------------------------------------------------------
(* Handlers from the answer to a request onwards *)

\* variant: new_algo_order returns the response as received
OnResult_untagged(fr, result) ==
    CASE fr.k = "algo_create" ->
           CASE fr.caller = "helper" ->
                      IF result.t = "dict" THEN Finish(Ok(Dict(Set(result.j, "_via_algo_api", True))))
                      ELSE Finish(Raise(TypeError))
                 [] fr.caller = "batch" ->
                      LET done == Get(fr.acc.j, "conditional").j
                          acc == Dict(Set(fr.acc.j, "conditional", List(Append(done, result))))
                      IN  batch_conditional(fr.todo, acc)
                 [] OTHER -> Finish(Ok(result))
      [] fr.k = "batch_regular" ->
           batch_conditional(fr.todo, Dict(Set(fr.acc.j, "regular", result)))
      [] OTHER -> Finish(Ok(result))

\* the handler after _request returned `result`
OnResult(fr, result) ==
    CASE fr.k = "algo_create" ->
           LET response == IF result.t = "dict" THEN Dict(Set(result.j, "_via_algo_api", True)) ELSE result
           IN  CASE fr.caller = "helper" ->
                      \* result["_via_algo_api"] = True on what new_algo_order returned
                      IF response.t = "dict" THEN Finish(Ok(Dict(Set(response.j, "_via_algo_api", True))))
                      ELSE Finish(Raise(TypeError))
                 [] fr.caller = "batch" ->
                      LET done == Get(fr.acc.j, "conditional").j
                          acc == Dict(Set(fr.acc.j, "conditional", List(Append(done, response))))
                      IN  batch_conditional(fr.todo, acc)
                 [] OTHER -> Finish(Ok(response))
      [] fr.k = "batch_regular" ->
           batch_conditional(fr.todo, Dict(Set(fr.acc.j, "regular", result)))
      [] OTHER -> Finish(Ok(result))

\* variant: new_order re-raises the migration error instead of falling back
OnAPIError_no_migration_fallback(c, fr, exc) ==
    CASE fr.k = "lookup" ->
           IF fr.fb /\ fr.algo_id # None /\ _is_order_not_found(exc)
           THEN algo_lookup(fr.lookup, fr.algo_id, Get(fr.params, "symbol"))
           ELSE Finish(Raise(exc))
      [] OTHER -> Finish(Raise(exc))

\* variant: on the migration error new_order starts over instead of going to
\* new_algo_order
OnAPIError_starts_over(c, fr, exc) ==
    CASE fr.k = "rest_order" ->
           IF exc.code = MigrationCode /\ c.auto_switch_conditional_to_algo
           THEN new_order(c, fr.params)
           ELSE Finish(Raise(exc))
      [] fr.k = "lookup" ->
           IF fr.fb /\ fr.algo_id # None /\ _is_order_not_found(exc)
           THEN algo_lookup(fr.lookup, fr.algo_id, Get(fr.params, "symbol"))
           ELSE Finish(Raise(exc))
      [] OTHER -> Finish(Raise(exc))

\* variant: new_order falls back on any API error
OnAPIError_falls_back_on_any_error(c, fr, exc) ==
    CASE fr.k = "rest_order" ->
           IF c.auto_switch_conditional_to_algo
           THEN new_algo_order(fr.params, "top", <<>>, None)
           ELSE Finish(Raise(exc))
      [] fr.k = "lookup" ->
           IF fr.fb /\ fr.algo_id # None /\ _is_order_not_found(exc)
           THEN algo_lookup(fr.lookup, fr.algo_id, Get(fr.params, "symbol"))
           ELSE Finish(Raise(exc))
      [] OTHER -> Finish(Raise(exc))

\* variant: a conditional order of a batch that is refused is skipped and the
\* loop goes on with the next one
OnAPIError_batch_skips_refused(c, fr, exc) ==
    CASE fr.k = "rest_order" ->
           IF exc.code = MigrationCode /\ c.auto_switch_conditional_to_algo
           THEN new_algo_order(fr.params, "top", <<>>, None)
           ELSE Finish(Raise(exc))
      [] fr.k = "lookup" ->
           IF fr.fb /\ fr.algo_id # None /\ _is_order_not_found(exc)
           THEN algo_lookup(fr.lookup, fr.algo_id, Get(fr.params, "symbol"))
           ELSE Finish(Raise(exc))
      [] fr.k = "algo_create" /\ fr.caller = "batch" -> batch_conditional(fr.todo, fr.acc)
      [] OTHER -> Finish(Raise(exc))

\* variant: the migration fallback of new_order does not look at the client's
\* auto-routing setting
OnAPIError_fallback_ignores_setting(c, fr, exc) ==
    CASE fr.k = "rest_order" ->
           IF exc.code = MigrationCode
           THEN new_algo_order(fr.params, "top", <<>>, None)
           ELSE Finish(Raise(exc))
      [] fr.k = "lookup" ->
           IF fr.fb /\ fr.algo_id # None /\ _is_order_not_found(exc)
           THEN algo_lookup(fr.lookup, fr.algo_id, Get(fr.params, "symbol"))
           ELSE Finish(Raise(exc))
      [] OTHER -> Finish(Raise(exc))

\* the handler after _request raised the API error `exc`
OnAPIError(c, fr, exc) ==
    CASE fr.k = "rest_order" ->
           IF exc.code = MigrationCode /\ c.auto_switch_conditional_to_algo
           THEN new_algo_order(fr.params, "top", <<>>, None)
           ELSE Finish(Raise(exc))
      [] fr.k = "lookup" ->
           IF fr.fb /\ fr.algo_id # None /\ _is_order_not_found(exc)
           THEN algo_lookup(fr.lookup, fr.algo_id, Get(fr.params, "symbol"))
           ELSE Finish(Raise(exc))
      [] OTHER -> Finish(Raise(exc))

\* variant: when the retries end on a response with a status of
\* status_forcelist, that response is handed on instead of an exception
Continue_exhaustion_returns_response(c, fr, resp, idx) ==
    CASE resp.kind = "network" /\ resp.status = 0 -> Finish(Raise(NetworkError(idx)))
      [] resp.kind \in {"error", "network"} -> OnAPIError(c, fr, _raise_api_error(resp, idx))
      [] resp.kind = "ok" /\ ~resp.json -> Finish(Raise(JSONDecodeError(idx)))
      [] OTHER -> OnResult(fr, resp.body)

\* _request from the answer of session.request onwards; idx is the answer's
\* position in resps
Continue(c, fr, resp, idx) ==
    CASE resp.kind = "network" -> Finish(Raise(NetworkError(idx)))
      [] resp.kind = "error" -> OnAPIError(c, fr, _raise_api_error(resp, idx))
      [] resp.kind = "ok" /\ ~resp.json -> Finish(Raise(JSONDecodeError(idx)))
      [] OTHER -> OnResult(fr, resp.body)

-----------------------------------------------------------------------------
(* The backend: what session.request can come back with *)

HttpOk(body) == [kind |-> "ok", status |-> 200, json |-> TRUE, body |-> body]
HttpOkNotJson == [kind |-> "ok", status |-> 200, json |-> FALSE, body |-> Str(<<"o","k">>)]
HttpError(status, code) ==
    [kind |-> "error", status |-> status, json |-> TRUE,
     body |-> Dict(<<[k |-> "code", v |-> Int_(code)], [k |-> "msg", v |-> Str(<<"e","r","r">>)]>>)]
HttpErrorNoCode(status) ==
    [kind |-> "error", status |-> status, json |-> TRUE,
     body |-> Dict(<<[k |-> "msg", v |-> Str(<<"e","r","r">>)]>>)]
HttpErrorText(status, text) == [kind |-> "error", status |-> status, json |-> FALSE, body |-> Str(text)]
\* an attempt that fails below HTTP (connection refused, reset, timed out)
NetworkFailure == [kind |-> "network", status |-> 0, json |-> FALSE, body |-> None]

\* acknowledgements: the regular family is keyed by orderId, the conditional
\* family by algoId; the n-th answer of a run carries the identifier n
Acks(http, n) ==
    CASE http.url[2] = OrderPath -> {Dict(<<[k |-> "orderId", v |-> Int_(n)]>>)}
      [] http.url[2] = OrderTestPath -> {Dict(<<>>)}
      [] http.url[2] = BatchOrdersPath -> {List(<<Dict(<<[k |-> "orderId", v |-> Int_(n)]>>)>>)}
      [] OTHER -> {Dict(<<[k |-> "algoId", v |-> Int_(n)], [k |-> "success", v |-> True]>>), List(<<>>)}

ErrorResponses ==
    {HttpError(400, -4120), HttpError(400, -2013), HttpError(400, -2011), HttpError(400, -1102),
     HttpErrorNoCode(400), HttpErrorText(404, <<"n","o">>), HttpErrorText(403, <<>>)}

\* what one HTTP attempt can meet (answers carry no Retry-After header)
Responses(http, n) ==
    {HttpOk(b) : b \in Acks(http, n)} \cup {HttpOkNotJson} \cup ErrorResponses
    \cup {NetworkFailure, HttpError(503, -1001)}

\* variant: the library's default, which leaves POST out
IsMethodRetryable_idempotent_only(method) == method \in {"GET", "DELETE"}

\* Retry(allowed_methods=False): every verb is retried
IsMethodRetryable(method) == TRUE

\* the adapter makes another attempt after `answer`, retries permitting
ShouldRetry(method, answer) ==
    /\ IsMethodRetryable(method)
    /\ answer.kind = "network" \/ answer.status \in status_forcelist

\* session.request raises a RequestException: the failure of the last attempt,
\* or RetryError for a last response with a status of status_forcelist
RequestException(answer) == [answer EXCEPT !.kind = "network"]

-----------------------------------------------------------------------------
(* What callers pass *)

KV(key, v) == <<[k |-> key, v |-> v]>>
Symbol == KV("symbol", Str(<<"B","T","C">>))
Side == KV("side", Str(<<"S","E","L","L">>))
Quantity == KV("quantity", Int_(1))
ReduceOnly == KV("reduceOnly", Str(TrueText))
StopPrice == KV("stopPrice", Int_(50000))
Type(text) == KV("type", Str(text))

Required == {Symbol \o Side}
RequiredMissing == {Side, Symbol \o KV("side", None), <<>>}

TypeTexts ==
    {STOP_MARKET, TAKE_PROFIT_MARKET, STOP, TAKE_PROFIT, TRAILING_STOP_MARKET,
     MARKET, LIMIT, Lower(STOP_MARKET), <<" ">> \o STOP \o <<" ">>, Lower(<<" ">> \o TAKE_PROFIT)}

Extras ==
    {<<>>,
     Quantity \o ReduceOnly,
     KV("closePosition", Str(TrueText)) \o Quantity \o ReduceOnly,
     KV("closePosition", Str(Upper(TrueText))) \o Quantity,
     KV("closePosition", True) \o ReduceOnly,
     KV("closePosition", Str(<<"f","a","l","s","e">>)) \o Quantity \o ReduceOnly,
     KV("closePosition", None) \o Quantity,
     KV("algoType", Str(<<"V","P">>)) \o Quantity}

ForceRest == {<<>>, KV("_force_rest_route", True), KV("_force_rest_route", False)}

NewOrderInputs ==
    {r \o Type(t) \o f : r \in Required, t \in TypeTexts, f \in ForceRest}
    \cup {r \o Type(t) \o x \o f : r \in Required, t \in {STOP_MARKET, MARKET}, x \in Extras,
                                    f \in {<<>>, KV("_force_rest_route", True)}}
    \cup {r \o t : r \in Required \cup RequiredMissing,
                   t \in {Type(STOP_MARKET), KV("type", None), <<>>}}

NewTestOrderInputs ==
    {r \o t : r \in Required \cup RequiredMissing,
              t \in {Type(MARKET), Type(Lower(STOP)), KV("type", None), <<>>}}
    \cup {KV("signature", Str(<<"x">>)) \o r \o Type(LIMIT) : r \in Required}
    \cup {r \o Type(LIMIT) \o KV("timestamp", None) \o KV("recvWindow", Int_(1000)) : r \in Required}

NewAlgoOrderInputs ==
    {r \o Type(t) \o x : r \in Required, t \in {STOP_MARKET, Lower(TAKE_PROFIT), MARKET}, x \in Extras}
    \cup {r \o t : r \in RequiredMissing, t \in {Type(STOP), <<>>}}

HelperInputs(trigger) ==
    {r \o trigger \o x : r \in Required, x \in Extras}
    \cup {r \o Type(MARKET) \o trigger : r \in Required}
    \cup {r \o t : r \in Required \cup RequiredMissing, t \in {<<>>, trigger}}

RegularIds == {<<>>, KV("orderId", Int_(111)), KV("orderId", Int_(0)), KV("origClientOrderId", Str(<<"c">>))}
AlgoIds ==
    {<<>>, KV("algoId", Int_(321)), KV("algoOrderId", Int_(88)),
     KV("algoId", Int_(321)) \o KV("algoOrderId", Int_(88)), KV("algoId", Int_(0))}
LookupInputs == {s \o r \o a : s \in {Symbol, <<>>}, r \in RegularIds, a \in AlgoIds}

OptBools == {"default", "true", "false"}

BatchOrder ==
    {Symbol \o Side \o Type(Lower(LIMIT)) \o Quantity \o KV("price", None),
     Symbol \o Side \o Type(STOP_MARKET) \o KV("closePosition", Str(TrueText)) \o Quantity,
     Symbol \o Side \o Type(Lower(TAKE_PROFIT)) \o StopPrice,
     Type(MARKET) \o KV("side", None)}
RECURSIVE Batches(_)
Batches(n) == IF n = 0 THEN {<<>>} ELSE Batches(n - 1) \cup {Append(b, o) : b \in Batches(n - 1), o \in BatchOrder}
SharedParams ==
    {<<>>,
     KV("recvWindow", Int_(3000)) \o KV("newOrderRespType", None) \o KV("quantity", Int_(2))
        \o KV("timestamp", Int_(7)) \o KV("algoType", Str(<<"V","P">>))
        \o KV("reduceOnly", Str(TrueText))}

Credentials ==
    {<<Str(<<"k">>), Str(<<"s">>)>>, <<Str(<<"k">>), None>>, <<None, Str(<<"s">>)>>, <<Str(<<"k">>), Str(<<>>)>>}

\* max_retries: left out, 0 or 1
MaxRetriesArgs == {<<>>, <<0>>, <<1>>}

Clients ==
    {__init__(Str(<<"k">>), Str(<<"s">>), "default", f, <<0>>) : f \in OptBools}
    \cup {__init__(Str(<<"k">>), Str(<<"s">>), "false", "default", <<0>>)}
    \cup {__init__(cr[1], cr[2], "default", "default", <<0>>) : cr \in Credentials}
    \cup {__init__(Str(<<"k">>), Str(<<"s">>), "default", "default", m) : m \in MaxRetriesArgs}

-----------------------------------------------------------------------------
(* The state machine: one caller, one call at a time *)

Init ==
    /\ client \in Clients
    /\ call = NoCall
    /\ pc = "idle"
    /\ frame = NoFrame
    /\ calls = <<>>
    /\ wire = <<>>
    /\ sent = <<>>
    /\ resps = <<>>
    /\ outcome = NoOutcome
    /\ theirs = <<>>

\* The caller invokes a method: the handler runs up to its first HTTP
\* exchange, or to its end when it raises before any.

CallNewOrder ==
    /\ pc = "idle"
    /\ \E p \in NewOrderInputs :
          /\ call' = Call("new_order", p)
          /\ Apply(new_order(client, p))
          /\ theirs' = <<Written(kwargs("caller"), p,
                                  IfRequired(p, <<"symbol", "side", "type">>,
                                             Del(NormalizedCopy(p), "_force_rest_route")))>>
    /\ UNCHANGED <<client, resps>>

CallNewTestOrder ==
    /\ pc = "idle"
    /\ \E p \in NewTestOrderInputs :
          /\ call' = Call("new_test_order", p)
          /\ Apply(new_test_order(p))
          /\ theirs' = <<Written(kwargs("caller"), p,
                                  IfRequired(p, <<"symbol", "side", "type">>, NormalizedCopy(p)))>>
    /\ UNCHANGED <<client, resps>>

CallNewAlgoOrder ==
    /\ pc = "idle"
    /\ \E p \in NewAlgoOrderInputs :
          /\ call' = Call("new_algo_order", p)
          /\ Apply(new_algo_order(p, "top", <<>>, None))
          /\ theirs' = <<Written(dict_copy(kwargs("caller")), p, AlgoParams(p))>>
    /\ UNCHANGED <<client, resps>>

CallNewStopLossOrder ==
    /\ pc = "idle"
    /\ \E p \in HelperInputs(StopPrice) :
          /\ call' = Call("new_stop_loss_order", p)
          /\ Apply(new_stop_loss_order(p))
          /\ theirs' = <<Written(dict_copy(kwargs("caller")), p, HelperParams(p, <<"symbol", "side", "stopPrice">>, STOP_MARKET))>>
    /\ UNCHANGED <<client, resps>>

CallNewTakeProfitOrder ==
    /\ pc = "idle"
    /\ \E p \in HelperInputs(StopPrice) :
          /\ call' = Call("new_take_profit_order", p)
          /\ Apply(new_take_profit_order(p))
          /\ theirs' = <<Written(dict_copy(kwargs("caller")), p, HelperParams(p, <<"symbol", "side", "stopPrice">>, TAKE_PROFIT_MARKET))>>
    /\ UNCHANGED <<client, resps>>

CallNewTrailingStopOrder ==
    /\ pc = "idle"
    /\ \E p \in HelperInputs(KV("callbackRate", Int_(1))) :
          /\ call' = Call("new_trailing_stop_order", p)
          /\ Apply(new_trailing_stop_order(p))
          /\ theirs' = <<Written(dict_copy(kwargs("caller")), p, HelperParams(p, <<"symbol", "side", "callbackRate">>, TRAILING_STOP_MARKET))>>
    /\ UNCHANGED <<client, resps>>

CallNewBatchOrders ==
    /\ pc = "idle"
    /\ \E os \in Batches(MaxBatch), f \in {"default", "false"}, p \in SharedParams :
          /\ call' = [name |-> "new_batch_orders", params |-> p, flag |-> f, orders |-> os]
          /\ Apply(new_batch_orders(os, f, p))
          /\ theirs' = OrdersAfterLoop(os)
    /\ UNCHANGED <<client, resps>>

CallQueryOrder ==
    /\ pc = "idle"
    /\ \E p \in LookupInputs, f \in OptBools :
          /\ call' = [Call("query_order", p) EXCEPT !.flag = f]
          /\ Apply(query_order(client, f, p))
          /\ theirs' = <<Written(kwargs("caller"), p, PopAlgoId(p).params)>>
    /\ UNCHANGED <<client, resps>>

CallCancelOrder ==
    /\ pc = "idle"
    /\ \E p \in LookupInputs, f \in OptBools :
          /\ call' = [Call("cancel_order", p) EXCEPT !.flag = f]
          /\ Apply(cancel_order(client, f, p))
          /\ theirs' = <<Written(kwargs("caller"), p, PopAlgoId(p).params)>>
    /\ UNCHANGED <<client, resps>>

\* an attempt failed or met a status of status_forcelist, and retries are
\* left: the adapter sends the same prepared request again
Retry ==
    /\ pc = "wait"
    /\ Len(sent) < 1 + client.max_retries
    /\ \E a \in Responses(wire[Len(wire)], Len(resps) + 1) :
          ShouldRetry(wire[Len(wire)].method, a)
    /\ sent' = Append(sent, Len(wire))
    /\ UNCHANGED <<client, call, pc, frame, calls, wire, resps, outcome, theirs>>

\* session.request returns a response and the handler runs on, to its end or
\* to its next HTTP exchange
Respond ==
    /\ pc = "wait"
    /\ \E r \in Responses(wire[Len(wire)], Len(resps) + 1) :
          /\ r.kind # "network"
          /\ ~ShouldRetry(wire[Len(wire)].method, r)
          /\ resps' = Append(resps, r)
          /\ Apply(Continue(client, frame, r, Len(resps) + 1))
    /\ UNCHANGED <<client, call, theirs>>

\* session.request raises: an attempt failed and is not retried, or the
\* retries are used up
GiveUp ==
    /\ pc = "wait"
    /\ \E a \in Responses(wire[Len(wire)], Len(resps) + 1) :
          /\ \/ a.kind = "network" /\ ~ShouldRetry(wire[Len(wire)].method, a)
             \/ ShouldRetry(wire[Len(wire)].method, a) /\ Len(sent) >= 1 + client.max_retries
          /\ resps' = Append(resps, RequestException(a))
          /\ Apply(Continue(client, frame, RequestException(a), Len(resps) + 1))
    /\ UNCHANGED <<client, call, theirs>>

\* the caller has its result or its exception; the next call starts afresh.
\* (From its first request on a handler writes only to mappings it built
\* itself: keyword arguments, copies, {**shared_params, **order}.)
Return ==
    /\ pc = "done"
    /\ pc' = "idle"
    /\ call' = NoCall
    /\ frame' = NoFrame
    /\ calls' = <<>>
    /\ wire' = <<>>
    /\ sent' = <<>>
    /\ resps' = <<>>
    /\ outcome' = NoOutcome
    /\ theirs' = <<>>
    /\ UNCHANGED client

Next ==
    \/ CallNewOrder
    \/ CallNewTestOrder
    \/ CallNewAlgoOrder
    \/ CallNewStopLossOrder
    \/ CallNewTakeProfitOrder
    \/ CallNewTrailingStopOrder
    \/ CallNewBatchOrders
    \/ CallQueryOrder
    \/ CallCancelOrder
    \/ Retry
    \/ Respond
    \/ GiveUp
    \/ Return

Spec == Init /\ [][Next]_vars

-----------------------------------------------------------------------------
(* Vocabulary of the properties *)

IsPost(r, path) == r.method = "POST" /\ r.path = path
IsLookupCall == call.name \in {"query_order", "cancel_order"}
Supplied(params, key) == Get(params, key) # None
CredentialsSet == Truthy(client.api_key) /\ Truthy(client.api_secret)
TypeText(params) == Upper(PyStr(Get(params, "type")))

\* the outcome a call has when the idx-th answer is the last thing that happens
\* to it: the decoded body (a mapping from the conditional creation endpoint
\* tagged), or the error built from that answer
IsFinalOutcome(idx, tagged) ==
    LET r == resps[idx]
    IN  /\ Len(resps) = idx
        /\ CASE r.kind = "network" -> outcome.kind = "error" /\ outcome.err.cls = "RuntimeError"
             [] r.kind = "error" ->
                  /\ outcome.kind = "error"
                  /\ IsAPIError(outcome.err)
                  /\ outcome.err.src = idx
                  /\ outcome.err.status = r.status
                  /\ outcome.err.code = (IF r.json THEN Get(r.body.j, "code") ELSE None)
             [] r.kind = "ok" /\ ~r.json -> outcome.kind = "error" /\ outcome.err.cls = "JSONDecodeError"
             [] OTHER ->
                  /\ outcome.kind = "ok"
                  /\ outcome.value = IF tagged /\ r.body.t = "dict"
                                     THEN Dict(r.body.j \o <<[k |-> "_via_algo_api", v |-> True]>>)
                                     ELSE r.body

\* the answer is the migration error / a not-found-class error
IsMigrationAnswer(r) == r.kind = "error" /\ r.json /\ Get(r.body.j, "code") = Int_(-4120)
IsNotFoundAnswer(r) ==
    r.kind = "error" /\ (r.status = 404 \/ (r.json /\ Get(r.body.j, "code") \in {Int_(-2013), Int_(-2011)}))

-----------------------------------------------------------------------------
(* C1 *)

\* new_order with auto-routing on, no override flag, a conditional type and
\* the required fields
C1_Case ==
    /\ call.name = "new_order"
    /\ client.auto_switch_conditional_to_algo
    /\ ~Truthy(Get(call.params, "_force_rest_route"))
    /\ Get(call.params, "type").t = "str"
    /\ Get(call.params, "type").s \in
         {STOP_MARKET, TAKE_PROFIT_MARKET, STOP, TAKE_PROFIT, TRAILING_STOP_MARKET}
    /\ Supplied(call.params, "symbol") /\ Supplied(call.params, "side")

\* C1: with auto-routing enabled and no override flag set, new_order for a
\* conditional type issues exactly one request, POST /fapi/v1/algoOrder, and
\* none to POST /fapi/v1/order, whatever the conditional endpoint answers
\* (while the request is pending and after any answer to it).
C1_ConditionalRoutedDirectly ==
    C1_Case =>
        /\ Len(calls) = 1
        /\ IsPost(calls[1], AlgoOrderPath)
        /\ \A i \in DOMAIN wire : wire[i].url[2] = AlgoOrderPath /\ wire[i].method = "POST"
        /\ Len(wire) = (IF CredentialsSet THEN 1 ELSE 0)
        /\ pc = "done" /\ Len(resps) = 1 => IsFinalOutcome(1, TRUE)

\* the conditional endpoint itself answered with the migration error, and the
\* call ended there
C1_Witness ==
    /\ C1_Case
    /\ pc = "done"
    /\ Len(resps) = 1
    /\ IsMigrationAnswer(resps[1])
    /\ Get(call.params, "type").s = TRAILING_STOP_MARKET

-----------------------------------------------------------------------------
(* C2 *)

\* new_order tried the regular endpoint, which answered with the migration
\* error, and auto-routing is on
C2_Case ==
    /\ call.name = "new_order"
    /\ client.auto_switch_conditional_to_algo
    /\ Len(calls) >= 1 /\ IsPost(calls[1], OrderPath)
    /\ Len(resps) >= 1 /\ IsMigrationAnswer(resps[1])

\* the second request is the order of the first: apart from algoType, and from
\* quantity and reduceOnly of a position-closing order, the same keys and values
C2_SameOrder(first, second) ==
    /\ \A key \in Keys(second) \ {"algoType"} : Has(first, key) /\ Get(first, key) = Get(second, key)
    /\ \A key \in Keys(first) \ {"algoType"} :
          \/ Has(second, key)
          \/ /\ key \in {"quantity", "reduceOnly"}
             /\ Lower(PyStr(Get(first, "closePosition"))) = <<"t","r","u","e">>

\* C2: when the regular endpoint answers new_order with the migration error
\* -4120 and auto-routing is enabled, exactly one further request is issued, to
\* POST /fapi/v1/algoOrder, with the same order; its result or error is final:
\* no second request to the regular endpoint and no third request.
C2_OneFallback ==
    C2_Case =>
        /\ Len(calls) = 2
        /\ IsPost(calls[2], AlgoOrderPath)
        /\ C2_SameOrder(calls[1].params, calls[2].params)
        /\ Len(wire) = 2
        /\ wire[2].url[2] = AlgoOrderPath
        /\ pc \in {"wait", "done"}
        /\ pc = "wait" => Len(resps) = 1
        /\ pc = "done" => IsFinalOutcome(2, TRUE)

\* the fallback request was answered with the migration error too, and the call
\* ended with that error
C2_Witness ==
    /\ C2_Case
    /\ pc = "done"
    /\ Len(resps) = 2
    /\ IsMigrationAnswer(resps[2])
    /\ outcome.err.cls = "ConditionalOrderMigratedError"
    /\ Has(call.params, "quantity")

-----------------------------------------------------------------------------
(* C3 *)

\* C3: every request sent to POST /fapi/v1/algoOrder, from any entry point,
\* carries algoType = "CONDITIONAL", whatever algoType the caller supplied.
C3_AlgoTypeFixed ==
    /\ \A i \in DOMAIN calls :
          IsPost(calls[i], AlgoOrderPath) =>
              Get(calls[i].params, "algoType") = Str(<<"C","O","N","D","I","T","I","O","N","A","L">>)
    /\ \A i \in DOMAIN wire :
          wire[i].method = "POST" /\ wire[i].url[2] = AlgoOrderPath =>
              /\ wire[i].params = None
              /\ Get(wire[i].data.j, "algoType") = Str(<<"C","O","N","D","I","T","I","O","N","A","L">>)

\* a batch whose shared parameters carry another algoType has sent two
\* conditional orders
C3_Witness ==
    /\ call.name = "new_batch_orders"
    /\ Get(call.params, "algoType") = Str(<<"V","P">>)
    /\ Len(wire) >= 2
    /\ wire[Len(wire)].url[2] = AlgoOrderPath
    /\ wire[Len(wire) - 1].url[2] = AlgoOrderPath

-----------------------------------------------------------------------------
(* C4 *)

C4_Case ==
    /\ call.name = "new_order"
    /\ Get(call.params, "type").t = "str"
    /\ Get(call.params, "type").s \in {MARKET, LIMIT}
    /\ calls # <<>>

-----------------------------------------------------------------------------
(* C5 *)

ConditionalTypeNames == {STOP_MARKET, TAKE_PROFIT_MARKET, STOP, TAKE_PROFIT, TRAILING_STOP_MARKET}

\* the orders the current call hands to the conditional path, in order: the
\* conditional orders of a batch (under the shared parameters), else the
\* keyword arguments of the call
SubmittedOrders ==
    IF call.name = "new_batch_orders"
    THEN LET sel == SelectSeq(call.orders, LAMBDA o : TypeText(o) \in ConditionalTypeNames)
             shared == SelectSeq(call.params, LAMBDA q : q.v # None)
         IN  [i \in DOMAIN sel |-> Merge(shared, sel[i])]
    ELSE <<call.params>>

\* the requests that went out to POST /fapi/v1/algoOrder, in order
AlgoPosts == SelectSeq(wire, LAMBDA w : w.method = "POST" /\ w.url[2] = AlgoOrderPath)

C5_ClosesPosition(order) ==
    Has(order, "closePosition") /\ Lower(PyStr(Get(order, "closePosition"))) = <<"t","r","u","e">>

\* what the guardrail allows on the wire for `order`
C5_Guardrail(order, body) ==
    \A key \in {"quantity", "reduceOnly"} :
        IF C5_ClosesPosition(order)
        THEN ~Has(body, key)
        ELSE IF Supplied(order, key)
        THEN Has(body, key) /\ Get(body, key) = Get(order, key)
        ELSE ~Has(body, key)

\* C5: for every conditional-order submission, quantity and reduceOnly are
\* absent from the request on the wire exactly when the order's closePosition,
\* as a lower-cased string, is "true"; otherwise both go out as supplied.
C5_ClosePositionGuardrail ==
    LET posts == AlgoPosts
        orders == SubmittedOrders
    IN  /\ Len(posts) <= Len(orders)
        /\ \A i \in DOMAIN posts : C5_Guardrail(orders[i], posts[i].data.j)

\* a stop-loss helper call with closePosition="TRUE" and a quantity is on the wire
C5_Witness ==
    /\ call.name = "new_stop_loss_order"
    /\ Get(call.params, "closePosition") = Str(<<"T","R","U","E">>)
    /\ Has(call.params, "quantity")
    /\ Len(AlgoPosts) = 1
    /\ ~Has(AlgoPosts[1].data.j, "quantity")

-----------------------------------------------------------------------------
(* C6 *)

C6_Conditional == SelectSeq(call.orders, LAMBDA o : TypeText(o) \in ConditionalTypeNames)
C6_Regular == SelectSeq(call.orders, LAMBDA o : TypeText(o) \notin ConditionalTypeNames)

\* request i of the batch call is the submission of conditional order `order`
C6_Submits(r, order) ==
    /\ IsPost(r, AlgoOrderPath)
    /\ Get(r.params, "type") = Str(TypeText(order))
    /\ \A key \in Keys(order) \ {"type", "quantity", "reduceOnly", "algoType"} :
          Get(r.params, key) = Get(order, key)

\* the requests a split batch makes, as far as it got: first the batch request
\* with the regular orders only, then one request per conditional order
C6_Requests ==
    LET regular == C6_Regular
        conditional == C6_Conditional
        b == IF regular = <<>> THEN 0 ELSE 1
    IN  /\ Len(calls) <= b + Len(conditional)
        /\ b = 1 /\ calls # <<>> =>
              /\ IsPost(calls[1], BatchOrdersPath)
              /\ Get(calls[1].params, "batchOrders") =
                    JsonDumps([i \in DOMAIN regular |->
                                 Dict(Set(regular[i], "type", Str(TypeText(regular[i]))))])
        /\ \A i \in DOMAIN calls : i > b => C6_Submits(calls[i], conditional[i - b])

\* the composite a split batch returns
C6_Result ==
    LET conditional == C6_Conditional
        b == IF C6_Regular = <<>> THEN 0 ELSE 1
        tag(body) == IF body.t = "dict"
                     THEN Dict(body.j \o <<[k |-> "_via_algo_api", v |-> True]>>) ELSE body
    IN  /\ Len(calls) = b + Len(conditional)
        /\ Len(resps) = Len(calls)
        /\ outcome.value =
              Dict(<<[k |-> "regular", v |-> IF b = 1 THEN resps[1].body ELSE None],
                     [k |-> "conditional",
                      v |-> List([i \in 1..Len(conditional) |-> tag(resps[b + i].body)])]>>)

\* C6: new_batch_orders with auto-split enabled issues one POST
\* /fapi/v1/batchOrders holding only the regular orders and one POST
\* /fapi/v1/algoOrder per conditional order, in input order; the composite
\* returned has the batch result under 'regular' (null without regular orders)
\* and the conditional results under 'conditional' in input order (empty
\* without conditional orders).
C6_BatchSplit ==
    (call.name = "new_batch_orders" /\ call.flag # "false") =>
        /\ C6_Requests
        /\ (pc = "done" /\ outcome.kind = "ok") => C6_Result

\* a batch of a conditional, a regular and another conditional order returned
\* its composite
C6_Witness ==
    /\ call.name = "new_batch_orders"
    /\ call.flag = "default"
    /\ pc = "done"
    /\ outcome.kind = "ok"
    /\ Len(call.orders) = 3
    /\ TypeText(call.orders[1]) = TAKE_PROFIT
    /\ TypeText(call.orders[2]) = LIMIT
    /\ TypeText(call.orders[3]) = STOP_MARKET
    /\ Len(calls) = 3
    /\ Get(outcome.value.j, "conditional").j[2].t = "dict"

-----------------------------------------------------------------------------
(* C7 *)

C7_Case ==
    /\ call.name = "new_batch_orders"
    /\ call.flag = "false"
    /\ \E i \in DOMAIN call.orders : TypeText(call.orders[i]) \in ConditionalTypeNames

\* C7: with auto-split disabled, a batch holding a conditional order fails with
\* a validation error and no request at all, whatever regular orders it holds.
C7_BatchFailsFast ==
    C7_Case =>
        /\ pc = "done"
        /\ outcome.kind = "error"
        /\ outcome.err.cls = "ValueError"
        /\ calls = <<>>
        /\ wire = <<>>
        /\ resps = <<>>

\* the refused batch is a valid regular order followed by a conditional one
C7_Witness ==
    /\ C7_Case
    /\ pc = "done"
    /\ outcome.err.why = "conditional_in_batch"
    /\ Len(call.orders) >= 2
    /\ TypeText(call.orders[1]) = LIMIT

-----------------------------------------------------------------------------
(* C8 *)

\* an identifier is supplied when it is given a value that is neither null nor zero nor empty
HasRegularId(params) == Truthy(Get(params, "orderId")) \/ Truthy(Get(params, "origClientOrderId"))
HasAlgoId(params) == Truthy(Get(params, "algoOrderId")) \/ Truthy(Get(params, "algoId"))
\* the conditional identifier of the call: algoOrderId when supplied, else algoId
TheAlgoId(params) ==
    IF Truthy(Get(params, "algoOrderId")) THEN Get(params, "algoOrderId") ELSE Get(params, "algoId")
LookupVerb == IF call.name = "query_order" THEN "GET" ELSE "DELETE"

\* request r is the read/cancel of the conditional order of the call, by its
\* identifier and the symbol and nothing else
IsAlgoLookup(r) ==
    /\ r.method = LookupVerb
    /\ r.path = AlgoOrderPath
    /\ Keys(r.params) = {"algoId", "symbol"}
    /\ Get(r.params, "algoId") = TheAlgoId(call.params)
    /\ Get(r.params, "symbol") = Get(call.params, "symbol")

C8_Case == IsLookupCall /\ HasAlgoId(call.params) /\ ~HasRegularId(call.params)

\* C8: query_order / cancel_order with a conditional-order identifier and no
\* regular-order identifier send the read/cancel straight to /fapi/v1/algoOrder
\* with that identifier and send nothing to /fapi/v1/order; the only call that
\* sends nothing at all is a cancel without symbol, refused as invalid.
C8_AlgoIdRoutesDirect ==
    C8_Case =>
        /\ \A i \in DOMAIN calls : calls[i].path # OrderPath
        /\ \A i \in DOMAIN wire : wire[i].url[2] # OrderPath
        /\ IF call.name = "cancel_order" /\ ~Supplied(call.params, "symbol")
           THEN calls = <<>> /\ outcome.err.cls = "ValueError" /\ outcome.err.missing = <<"symbol">>
           ELSE /\ Len(calls) = 1
                /\ IsAlgoLookup(calls[1])
                /\ CredentialsSet =>
                      /\ Len(wire) = 1
                      /\ wire[1].method = LookupVerb
                      /\ Get(WireParams(wire[1]), "algoId") = TheAlgoId(call.params)
                /\ pc = "done" /\ Len(resps) = 1 => IsFinalOutcome(1, FALSE)

\* a cancel by algoOrderId alone was acknowledged by the conditional endpoint
C8_Witness ==
    /\ C8_Case
    /\ call.name = "cancel_order"
    /\ Get(call.params, "algoOrderId") = Int_(88)
    /\ pc = "done"
    /\ outcome.kind = "ok"
    /\ Has(outcome.value.j, "algoId")

-----------------------------------------------------------------------------
(* C9 *)

\* whether not-found fallback is on for the call: the per-call flag when given,
\* else the client's setting
C9_FallbackOn == IF call.flag = "default" THEN client.attempt_algo_on_not_found ELSE call.flag = "true"

C9_Case ==
    /\ IsLookupCall
    /\ HasRegularId(call.params)
    /\ HasAlgoId(call.params)
    /\ calls # <<>>

\* C9: query_order / cancel_order with both a regular and a conditional
\* identifier try /fapi/v1/order first; if that fails with a not-found-class
\* error (code -2013 or -2011, or HTTP 404) and fallback is enabled, exactly one
\* more call is made, to /fapi/v1/algoOrder, carrying the conditional identifier
\* and the symbol and not the regular identifier, and its outcome is final.
C9_NotFoundFallback ==
    C9_Case =>
        /\ calls[1].method = LookupVerb /\ calls[1].path = OrderPath
        /\ \A key \in {"orderId", "origClientOrderId", "symbol"} :
              Get(calls[1].params, key) = Get(call.params, key)
        /\ (Len(resps) >= 1 /\ IsNotFoundAnswer(resps[1]) /\ C9_FallbackOn) =>
              /\ Len(calls) = 2
              /\ IsAlgoLookup(calls[2])
              /\ Len(wire) = 2
              /\ wire[2].url[2] = AlgoOrderPath
              /\ ~Has(WireParams(wire[2]), "orderId")
              /\ ~Has(WireParams(wire[2]), "origClientOrderId")
              /\ pc = "wait" => Len(resps) = 1
              /\ pc = "done" => IsFinalOutcome(2, FALSE)

\* a query with orderId and algoId got HTTP 404 from the regular endpoint and
\* then a not-found error from the conditional endpoint, which ended the call
C9_Witness ==
    /\ C9_Case
    /\ call.name = "query_order"
    /\ Has(call.params, "orderId")
    /\ pc = "done"
    /\ Len(resps) = 2
    /\ resps[1].status = 404
    /\ IsNotFoundAnswer(resps[2])
    /\ outcome.kind = "error"

-----------------------------------------------------------------------------
(* C10 *)

\* the regular endpoint answered the first request of a lookup with a
\* not-found-class error
C10_NotFoundOnRegular ==
    /\ IsLookupCall
    /\ Len(calls) >= 1 /\ calls[1].path = OrderPath
    /\ Len(resps) >= 1 /\ IsNotFoundAnswer(resps[1])

\* C10: not-found fallback is off by default and overridden per call: on a
\* client constructed without attempt_algo_on_not_found and a call without
\* allow_algo_fallback the not-found error of the regular endpoint propagates and
\* the conditional endpoint is not called; a given allow_algo_fallback decides
\* alone, whatever the client's setting: false never falls back, true does when
\* a conditional identifier came with the call.
C10_FallbackOffByDefault ==
    C10_NotFoundOnRegular =>
        /\ (client.args.attempt_algo = "default" /\ call.flag = "default") =>
              /\ Len(calls) = 1
              /\ pc = "done"
              /\ IsFinalOutcome(1, FALSE)
        /\ call.flag = "false" => Len(calls) = 1 /\ pc = "done" /\ IsFinalOutcome(1, FALSE)
        /\ (call.flag = "true" /\ HasAlgoId(call.params)) => Len(calls) = 2 /\ IsAlgoLookup(calls[2])
        /\ (call.flag = "default" /\ HasAlgoId(call.params)) =>
              (Len(calls) = 2 <=> client.args.attempt_algo = "true")

\* the client was built with attempt_algo_on_not_found=True, the call passed
\* allow_algo_fallback=False, and the not-found error came back to the caller
C10_Witness ==
    /\ C10_NotFoundOnRegular
    /\ client.args.attempt_algo = "true"
    /\ call.flag = "false"
    /\ HasAlgoId(call.params)
    /\ pc = "done"
    /\ outcome.err.code = Int_(-2013)

\* a default client, no per-call flag: the not-found error came back
C10_WitnessDefault ==
    /\ C10_NotFoundOnRegular
    /\ client.args.attempt_algo = "default"
    /\ call.flag = "default"
    /\ HasAlgoId(call.params)
    /\ pc = "done"

-----------------------------------------------------------------------------
(* C11 *)

\* no secret is configured: api_secret is None or empty
C11_NoSecret == ~Truthy(client.api_secret)

\* C11: on a client without a configured secret every call of a signed
\* operation ends with the credentials error (a ValueError, the class the
\* client raises for it) and nothing is handed to the HTTP transport: no
\* request is built for session.request, no attempt is made, no answer seen.
C11_NoSecretNoRequest ==
    (C11_NoSecret /\ pc # "idle") =>
        /\ wire = <<>>
        /\ sent = <<>>
        /\ resps = <<>>
        /\ pc = "done"
        /\ outcome.kind = "error"
        /\ outcome.err.cls = "ValueError"
        /\ calls # <<>> => Len(calls) = 1 /\ outcome.err.why = "credentials"

\* a client with a key and no secret: cancel_order reached _request and was
\* refused there
C11_Witness ==
    /\ C11_NoSecret
    /\ Truthy(client.api_key)
    /\ call.name = "cancel_order"
    /\ pc = "done"
    /\ Len(calls) = 1
    /\ outcome.err.why = "credentials"

-----------------------------------------------------------------------------
(* C12 *)

\* the fields an order-creation method requires of its keyword arguments
C12_Required ==
    CASE call.name \in {"new_order", "new_test_order", "new_algo_order"} -> {"symbol", "side", "type"}
      [] call.name \in {"new_stop_loss_order", "new_take_profit_order"} -> {"symbol", "side", "stopPrice"}
      [] call.name = "new_trailing_stop_order" -> {"symbol", "side", "callbackRate"}
      [] OTHER -> {}

\* the required fields that are absent or null in `params`
C12_Absent(params, required) == {f \in required : ~Has(params, f) \/ Get(params, f) = None}

\* the orders of the batch that lack a required field
C12_InvalidOrders ==
    {i \in DOMAIN call.orders : C12_Absent(call.orders[i], {"symbol", "side", "type"}) # {}}

\* the fields the call has to be told about: those of its keyword arguments
\* or, for a batch, those of its first order that lacks any
C12_Expected ==
    IF call.name = "new_batch_orders"
    THEN IF C12_InvalidOrders = {} THEN {}
         ELSE C12_Absent(call.orders[CHOOSE i \in C12_InvalidOrders : \A j \in C12_InvalidOrders : i <= j],
                         {"symbol", "side", "type"})
    ELSE C12_Absent(call.params, C12_Required)

C12_WitnessBatch ==
    /\ call.name = "new_batch_orders"
    /\ C12_InvalidOrders = {2}
    /\ pc = "done"
    /\ outcome.err.missing = <<"symbol", "side">>

-----------------------------------------------------------------------------
(* C13 *)

\* C13: two signing operations of a client (one secret) on identical
\* parameters that carry the same timestamp give identical signed output,
\* signature included.
C13_SigningDeterministic ==
    CredentialsSet =>
        \A i, j \in DOMAIN wire :
            (/\ calls[i].params = calls[j].params
             /\ Get(WireParams(wire[i]), "timestamp") = Get(WireParams(wire[j]), "timestamp")) =>
                /\ WireParams(wire[i]) = WireParams(wire[j])
                /\ Get(WireParams(wire[i]), "signature") = Get(WireParams(wire[j]), "signature")

\* two equal conditional orders of one batch, under a shared timestamp, were
\* signed one after the other
C13_Witness ==
    /\ call.name = "new_batch_orders"
    /\ Len(wire) >= 2
    /\ calls[1].params = calls[2].params
    /\ Get(WireParams(wire[1]), "timestamp") = Int_(7)
    /\ Get(WireParams(wire[2]), "timestamp") = Int_(7)
    /\ Get(WireParams(wire[2]), "signature").t = "hmac"

-----------------------------------------------------------------------------
(* C14 *)

\* the error code of an answer: the "code" of a JSON object, else none
C14_Code(r) == IF r.json /\ r.body.t = "dict" THEN Get(r.body.j, "code") ELSE None

\* C14: the error raised for a response that is not ok is a
\* ConditionalOrderMigratedError exactly when the payload's code is -4120 and
\* a BinanceFuturesAPIError otherwise (other code, no code, body not JSON);
\* either carries the response's HTTP status and the extracted code.  An
\* error response that no further request follows always ends in that error.
C14_ErrorClassification ==
    /\ (pc = "done" /\ outcome.kind = "error" /\ outcome.err.src > 0
           /\ resps[outcome.err.src].kind = "error") =>
          LET r == resps[outcome.err.src]
          IN  /\ outcome.err.cls = IF C14_Code(r) = Int_(-4120) THEN "ConditionalOrderMigratedError"
                                   ELSE "BinanceFuturesAPIError"
              /\ outcome.err.status = r.status
              /\ outcome.err.code = C14_Code(r)
    /\ (pc = "done" /\ resps # <<>> /\ resps[Len(resps)].kind = "error" /\ Len(calls) = Len(resps)) =>
          /\ outcome.kind = "error"
          /\ outcome.err.src = Len(resps) \/ outcome.err.cls = "ValueError"

\* the conditional endpoint answered new_algo_order with -4120
C14_Witness ==
    /\ call.name = "new_algo_order"
    /\ pc = "done"
    /\ outcome.err.cls = "ConditionalOrderMigratedError"
    /\ outcome.err.status = 400
    /\ outcome.err.code = Int_(-4120)

\* an error whose body is empty and not JSON
C14_WitnessText ==
    /\ pc = "done"
    /\ outcome.err.cls = "BinanceFuturesAPIError"
    /\ outcome.err.status = 403
    /\ outcome.err.code = None
    /\ outcome.err.payload = Str(<<"<","e","m","p","t","y",">">>)

-----------------------------------------------------------------------------
(* C15 *)

C15_Marked(v) == v.t = "dict" /\ Get(v.j, "_via_algo_api") = True

\* the call's result is what a request to the conditional creation endpoint returned
C15_ConditionalResult ==
    /\ call.name \in {"new_order", "new_algo_order", "new_stop_loss_order",
                       "new_take_profit_order", "new_trailing_stop_order"}
    /\ pc = "done"
    /\ outcome.kind = "ok"
    /\ IsPost(calls[Len(calls)], AlgoOrderPath)

\* C15: every mapping-shaped result of a submission through the conditional
\* path carries _via_algo_api = True: the result of new_algo_order, of the
\* three helpers, of new_order when auto-routed or fallen back, and every
\* entry of 'conditional' of a batch result; the result of a submission that
\* ended on the regular endpoint carries no marker.
C15_ConditionalResultsMarked ==
    /\ C15_ConditionalResult => (outcome.value.t = "dict" => C15_Marked(outcome.value))
    /\ (call.name = "new_batch_orders" /\ pc = "done" /\ outcome.kind = "ok") =>
          LET conditional == Get(outcome.value.j, "conditional").j
          IN  \A i \in DOMAIN conditional : conditional[i].t = "dict" => C15_Marked(conditional[i])
    /\ (call.name = "new_order" /\ pc = "done" /\ outcome.kind = "ok"
           /\ IsPost(calls[Len(calls)], OrderPath)) =>
          ~Has(outcome.value.j, "_via_algo_api")

\* new_order fell back to the conditional endpoint and returned its acknowledgement
C15_Witness ==
    /\ C15_ConditionalResult
    /\ call.name = "new_order"
    /\ Len(calls) = 2
    /\ C15_Marked(outcome.value)
    /\ Has(outcome.value.j, "algoId")

-----------------------------------------------------------------------------
(* C16 *)

\* the regular endpoint answered new_order with an error other than -4120
C16_OrderCase ==
    /\ call.name = "new_order"
    /\ calls # <<>> /\ IsPost(calls[1], OrderPath)
    /\ resps # <<>> /\ resps[1].kind = "error" /\ ~IsMigrationAnswer(resps[1])

\* the regular endpoint answered query_order / cancel_order with an error
\* outside the not-found class
C16_LookupCase ==
    /\ IsLookupCall
    /\ calls # <<>> /\ calls[1].path = OrderPath
    /\ resps # <<>> /\ resps[1].kind = "error" /\ ~IsNotFoundAnswer(resps[1])

\* C16: an API error other than the endpoint-switch cases (new_order: code
\* other than -4120; query_order / cancel_order: not of the not-found class)
\* reaches the caller as built from the response, and no second request is
\* made, none to the conditional endpoint in particular.
C16_OtherErrorsPropagate ==
    (C16_OrderCase \/ C16_LookupCase) =>
        /\ Len(calls) = 1
        /\ Len(wire) = 1
        /\ pc = "done"
        /\ IsFinalOutcome(1, FALSE)
        /\ outcome.err.payload = IF resps[1].json THEN resps[1].body
                                  ELSE IF resps[1].body.s = <<>> THEN Str(<<"<","e","m","p","t","y",">">>)
                                  ELSE resps[1].body

\* cancel_order with both identifiers and fallback enabled met -1102
C16_Witness ==
    /\ C16_LookupCase
    /\ call.name = "cancel_order"
    /\ C9_FallbackOn
    /\ HasAlgoId(call.params)
    /\ pc = "done"
    /\ outcome.err.code = Int_(-1102)

\* new_order on an auto-routing client met a not-found code
C16_WitnessOrder ==
    /\ C16_OrderCase
    /\ client.auto_switch_conditional_to_algo
    /\ pc = "done"
    /\ outcome.err.code = Int_(-2013)

-----------------------------------------------------------------------------
(* C17 *)

\* C17: every HTTP attempt of a call, automatic retries included, carries a
\* signed request built for that attempt: no two attempts transmit the result
\* of the same signing operation.
C17_SignedPerAttempt ==
    \A i, j \in DOMAIN sent : i # j => sent[i] # sent[j]

\* what the client does instead: each invocation of _request signs once, and
\* all attempts made for it transmit that one signed request
C17_SignedPerRequest ==
    /\ CredentialsSet => Len(wire) = Len(calls)
    /\ \A i \in DOMAIN sent : sent[i] = Len(wire)

-----------------------------------------------------------------------------
(* C18 *)

\* session.request gave up on the latest request with the retries used up
C18_Exhausted ==
    /\ pc = "done"
    /\ resps # <<>>
    /\ resps[Len(resps)].kind = "network"
    /\ Len(sent) = 1 + client.max_retries

\* C18: when the retries of a request are used up the call ends with the last
\* failure seen: a transport error if the last attempt failed below HTTP, the
\* API error built from the last response (status and payload) if the last
\* attempt met a status of status_forcelist.
C18_LastFailureSurfaced ==
    C18_Exhausted =>
        LET last == resps[Len(resps)]
        IN  /\ outcome.kind = "error"
            /\ IF last.status = 0
               THEN outcome.err.cls = "RuntimeError"
               ELSE /\ IsAPIError(outcome.err)
                    /\ outcome.err.status = last.status
                    /\ outcome.err.payload = last.body

\* what the client does instead: either way the call ends with the
\* RuntimeError _request raises for a RequestException
C18_ExhaustionIsNetworkError ==
    C18_Exhausted => outcome.kind = "error" /\ outcome.err.cls = "RuntimeError"

-----------------------------------------------------------------------------
(* C19 *)

\* C19: retries are bounded and made for every verb.  The attempts made for
\* a request never exceed 1 + max_retries; a response handed to the client
\* (and so to the error classifier when it is not ok) never has a status of
\* {429, 500, 502, 503, 504} and ends the attempts for its request; a
\* transport failure or a status of that set surfaces only once the retries
\* are used up, POST included.
C19_BoundedRetry ==
    /\ Len(sent) <= 1 + client.max_retries
    /\ \A i \in DOMAIN sent : sent[i] = Len(wire)
    /\ \A k \in DOMAIN resps :
          IF resps[k].kind = "network"
          THEN k = Len(resps) /\ pc = "done" /\ Len(sent) = 1 + client.max_retries
          ELSE resps[k].status \notin {429, 500, 502, 503, 504}
    /\ pc = "wait" => Len(resps) = Len(wire) - 1
    /\ (pc = "done" /\ wire # <<>>) => Len(resps) = Len(wire)

\* a POST was retried three times (the default max_retries) and then met a
\* 400, which went to the classifier
C19_Witness ==
    /\ call.name = "new_order"
    /\ client.max_retries = 3
    /\ pc = "done"
    /\ Len(sent) = 4
    /\ wire[1].method = "POST"
    /\ Len(resps) = 1
    /\ resps[1].status = 400
    /\ IsAPIError(outcome.err)

-----------------------------------------------------------------------------
(* C20 *)

\* the invocations of _request of the current call that went to `path`
C20_RequestsTo(path) == {i \in DOMAIN calls : calls[i].path = path}

\* C20: one call of new_order, query_order or cancel_order makes at most two
\* invocations of _request, at most one on /fapi/v1/order and at most one on
\* /fapi/v1/algoOrder, whatever the backend answers, and it has ended with a
\* result or an error once every request it made is answered.
C20_NoOscillation ==
    call.name \in {"new_order", "query_order", "cancel_order"} =>
        /\ Len(calls) <= 2
        /\ Cardinality(C20_RequestsTo(OrderPath)) <= 1
        /\ Cardinality(C20_RequestsTo(AlgoOrderPath)) <= 1
        /\ \A i \in DOMAIN calls : calls[i].path \in {OrderPath, AlgoOrderPath}
        /\ Len(resps) <= Len(calls)
        /\ pc = "wait" => Len(resps) < Len(calls)
        /\ Len(resps) = 2 => pc = "done"
        /\ pc = "done" => outcome.kind \in {"ok", "error"}

\* both endpoints answered cancel_order with a not-found error, and the call
\* ended with the second
C20_Witness ==
    /\ call.name = "cancel_order"
    /\ pc = "done"
    /\ Len(calls) = 2
    /\ Len(resps) = 2
    /\ IsNotFoundAnswer(resps[1])
    /\ IsNotFoundAnswer(resps[2])
    /\ outcome.err.src = 2

-----------------------------------------------------------------------------
(* C21 *)

\* session.request came back with something _request turns into an exception
C21_Failed(r) == r.kind # "ok" \/ ~r.json

\* the requests of the batch call that are conditional submissions, in the
\* order they were made
C21_Submissions == SelectSeq(calls, LAMBDA r : r.path = AlgoOrderPath)

\* C21: in new_batch_orders the batch request, if any, is the first request;
\* the conditional orders are submitted one at a time in input order, each
\* only after everything before it was accepted; when the batch request or a
\* conditional submission fails the call ends at once with that failure: no
\* further request is made and the caller gets the exception, not the results
\* of what was accepted before.
C21_BatchStopsAtFirstFailure ==
    call.name = "new_batch_orders" =>
        LET conditional == SelectSeq(call.orders, LAMBDA o : TypeText(o) \in ConditionalTypeNames)
            submissions == C21_Submissions
        IN  /\ \A i \in DOMAIN calls :
                  /\ calls[i].method = "POST"
                  /\ calls[i].path \in {BatchOrdersPath, AlgoOrderPath}
                  /\ calls[i].path = BatchOrdersPath => i = 1
            /\ Len(submissions) <= Len(conditional)
            /\ \A i \in DOMAIN submissions :
                  /\ Get(submissions[i].params, "type") = Str(TypeText(conditional[i]))
                  /\ Get(submissions[i].params, "stopPrice") = Get(conditional[i], "stopPrice")
                  /\ Get(submissions[i].params, "closePosition") = Get(conditional[i], "closePosition")
            /\ Len(calls) <= Len(resps) + 1
            /\ \A k \in DOMAIN resps :
                  IF C21_Failed(resps[k])
                  THEN /\ k = Len(resps)
                       /\ Len(calls) = k
                       /\ pc = "done"
                       /\ outcome.kind = "error"
                       /\ outcome.value = None
                       /\ outcome.err.src = k
                  ELSE k < Len(resps) \/ pc = "wait" \/ outcome.kind = "ok"

\* the batch request and the first of two conditional orders were accepted,
\* the second conditional submission was refused
C21_Witness ==
    /\ call.name = "new_batch_orders"
    /\ Len(call.orders) = 3
    /\ TypeText(call.orders[1]) = STOP_MARKET
    /\ TypeText(call.orders[2]) = LIMIT
    /\ TypeText(call.orders[3]) = TAKE_PROFIT
    /\ Len(calls) = 3
    /\ Len(resps) = 3
    /\ resps[3].kind = "error"
    /\ outcome.kind = "error"
    /\ outcome.err.src = 3

-----------------------------------------------------------------------------
(* C22 *)

\* new_order on a client built with auto_switch_conditional_to_algo=False
C22_Case == call.name = "new_order" /\ ~client.auto_switch_conditional_to_algo

\* C22: with auto-routing disabled new_order never contacts the conditional
\* endpoint.  An order with its required fields, of conditional type too,
\* makes exactly one request, POST /fapi/v1/order; a migration error (-4120)
\* answering it ends the call as ConditionalOrderMigratedError, and no
\* second request is made.
C22_AutoSwitchOffStaysRegular ==
    C22_Case =>
        /\ \A i \in DOMAIN calls : IsPost(calls[i], OrderPath)
        /\ \A i \in DOMAIN wire : wire[i].method = "POST" /\ wire[i].url[2] = OrderPath
        /\ Len(calls) <= 1
        /\ (\A f \in {"symbol", "side", "type"} : Supplied(call.params, f)) => Len(calls) = 1
        /\ (Len(resps) = 1 /\ IsMigrationAnswer(resps[1])) =>
              /\ pc = "done"
              /\ outcome.kind = "error"
              /\ outcome.err.cls = "ConditionalOrderMigratedError"
              /\ outcome.err.code = Int_(-4120)
              /\ outcome.err.src = 1

\* a STOP_MARKET order went to the regular endpoint, which answered -4120
C22_Witness ==
    /\ C22_Case
    /\ TypeText(call.params) = STOP_MARKET
    /\ ~Has(call.params, "_force_rest_route")
    /\ Len(calls) = 1
    /\ Len(resps) = 1
    /\ IsMigrationAnswer(resps[1])
    /\ outcome.err.cls = "ConditionalOrderMigratedError"

-----------------------------------------------------------------------------
(* C23 *)

\* the request new_order, query_order or cancel_order made to the regular
\* endpoint ended in an exception of the transport (the attempts failed below
\* HTTP or kept meeting a status of status_forcelist until none was left)
C23_Case ==
    /\ call.name \in {"new_order", "query_order", "cancel_order"}
    /\ Len(calls) >= 1
    /\ calls[1].path = OrderPath
    /\ Len(resps) >= 1
    /\ resps[1].kind = "network"

\* C23: a transport failure on the regular endpoint ends new_order,
\* query_order and cancel_order with an error that is not an API error, and
\* no request goes to the conditional endpoint, whatever the routing and
\* fallback settings.
C23_TransportFailureNoFallback ==
    C23_Case =>
        /\ pc = "done"
        /\ Len(calls) = 1
        /\ Len(wire) = 1
        /\ wire[1].url[2] = OrderPath
        /\ outcome.kind = "error"
        /\ outcome.err.cls = "RuntimeError"
        /\ ~IsAPIError(outcome.err)

\* query_order with an order id and an algo id, fallback asked for, on a
\* client with one retry: both attempts failed
C23_Witness ==
    /\ C23_Case
    /\ call.name = "query_order"
    /\ call.flag = "true"
    /\ Truthy(Get(call.params, "algoId"))
    /\ Truthy(Get(call.params, "orderId"))
    /\ client.max_retries = 1
    /\ Len(sent) = 2
    /\ outcome.err.cls = "RuntimeError"

\* new_order on an auto-routing client: the regular endpoint was unreachable
C23_WitnessOrder ==
    /\ C23_Case
    /\ call.name = "new_order"
    /\ client.auto_switch_conditional_to_algo
    /\ resps[1].status = 0
    /\ pc = "done"

-----------------------------------------------------------------------------
(* C24 *)

\* C24: no request query_order or cancel_order sends to /fapi/v1/order
\* carries an algoId or an algoOrderId parameter, whichever of the two
\* identifiers the caller supplied.
C24_NoAlgoIdOnRegular ==
    IsLookupCall =>
        \A i \in DOMAIN wire :
            wire[i].url[2] = OrderPath =>
                /\ ~Has(WireParams(wire[i]), "algoId")
                /\ ~Has(WireParams(wire[i]), "algoOrderId")

\* what the client does: algoOrderId never reaches the regular endpoint, and
\* algoId reaches it exactly when a truthy algoOrderId came with it (the
\* second pop of `pop("algoOrderId") or pop("algoId")` is then not evaluated)
C24_AlgoIdLeaksBehindAlias ==
    IsLookupCall =>
        \A i \in DOMAIN wire :
            wire[i].url[2] = OrderPath =>
                /\ ~Has(WireParams(wire[i]), "algoOrderId")
                /\ Has(WireParams(wire[i]), "algoId") <=>
                      (Truthy(Get(call.params, "algoOrderId")) /\ Supplied(call.params, "algoId"))

-----------------------------------------------------------------------------
(* C25 *)

\* str.strip() for the blank
RECURSIVE C25_Trim(_)
C25_Trim(chars) ==
    IF chars = <<>> THEN <<>>
    ELSE IF Head(chars) = " " THEN C25_Trim(Tail(chars))
    ELSE IF chars[Len(chars)] = " " THEN C25_Trim(SubSeq(chars, 1, Len(chars) - 1))
    ELSE chars

\* new_order on an auto-routing client, without the override flag, for an
\* order with its required fields and a text as type
C25_Case ==
    /\ call.name = "new_order"
    /\ client.auto_switch_conditional_to_algo
    /\ ~Truthy(Get(call.params, "_force_rest_route"))
    /\ Supplied(call.params, "symbol") /\ Supplied(call.params, "side")
    /\ Get(call.params, "type").t = "str"

\* C25: an order is conditional exactly when its type, trimmed of
\* surrounding whitespace and upper-cased, is one of the five conditional
\* types: the first request of new_order goes to /fapi/v1/algoOrder in that
\* case and to /fapi/v1/order otherwise.
C25_ClassifiedTrimmedUpper ==
    C25_Case =>
        /\ Len(calls) >= 1
        /\ calls[1].path =
              (IF Upper(C25_Trim(Get(call.params, "type").s)) \in ConditionalTypeNames
               THEN AlgoOrderPath ELSE OrderPath)

\* what the client does: the type is upper-cased but not trimmed
C25_ClassifiedUpper ==
    C25_Case =>
        /\ Len(calls) >= 1
        /\ calls[1].path =
              (IF Upper(Get(call.params, "type").s) \in ConditionalTypeNames
               THEN AlgoOrderPath ELSE OrderPath)

-----------------------------------------------------------------------------
(* C26 *)

\* the request went through _sign_params
C26_Signed(http) == Has(http.headers, "X-MBX-APIKEY")

\* signature is the last parameter of p and the digest, under the client's
\* secret, of the serialization of the parameters before it
C26_LastAndOverRest(p) ==
    /\ p # <<>>
    /\ p[Len(p)].k = "signature"
    /\ p[Len(p)].v = Hmac(client.api_secret, UrlEncode(SubSeq(p, 1, Len(p) - 1)))

\* C26: in every signed request on the wire, signature is the final
\* parameter and is the digest of the serialization of exactly the other
\* parameters sent, in the order sent, whatever the caller supplied, a
\* signature key included.
C26_SignatureLastOverRest ==
    \A i \in DOMAIN wire : C26_Signed(wire[i]) => C26_LastAndOverRest(WireParams(wire[i]))

\* what the client does: this holds of the requests whose caller-supplied
\* parameters have no signature key; a supplied one keeps its place in the
\* sequence, is part of the signed text, and is then overwritten
C26_SignatureLastUnlessSupplied ==
    \A i \in DOMAIN wire :
        C26_Signed(wire[i]) =>
            IF Supplied(call.params, "signature")
            THEN LET p == WireParams(wire[i])
                 IN  /\ p[1].k = "signature"
                     /\ p[1].v = Hmac(client.api_secret,
                                      UrlEncode(Set(p, "signature", Get(call.params, "signature"))))
            ELSE C26_LastAndOverRest(WireParams(wire[i]))

-----------------------------------------------------------------------------
(* C27 *)

\* the value `key` has on the wire, given what _request was handed
C27_Expected(req, key, injected) ==
    IF Supplied(req.params, key) THEN Get(req.params, key) ELSE injected

C27_WitnessBatch ==
    /\ call.name = "new_batch_orders"
    /\ Len(wire) = 2
    /\ Get(WireParams(wire[2]), "timestamp") = Int_(7)
    /\ Get(WireParams(wire[2]), "recvWindow") = Int_(3000)

-----------------------------------------------------------------------------
(* C28 *)

\* v is None, or a JSON text in which a field of an order is null
C28_CarriesNull(v) ==
    \/ v = None
    \/ /\ v.t = "json"
       /\ \E i \in DOMAIN v.j : \E n \in DOMAIN v.j[i].j : v.j[i].j[n].v = None

\* C28: no request handed to session.request carries a null: a key whose
\* value is None is left out of the query or body, for every operation, the
\* fields of the orders of a batch included.
C28_NoNullOnWire ==
    \A i \in DOMAIN wire :
        \A n \in DOMAIN WireParams(wire[i]) : ~C28_CarriesNull(WireParams(wire[i])[n].v)

\* what the client does: no parameter of a request is None itself
\* (_clean_params), while the orders inside batchOrders are serialized as the
\* caller wrote them
C28_NoNullParameter ==
    \A i \in DOMAIN wire :
        \A n \in DOMAIN WireParams(wire[i]) : WireParams(wire[i])[n].v # None

-----------------------------------------------------------------------------
(* C29 *)

\* the mappings the caller handed over, as they were when the call was made
C29_Passed == IF call.name = "new_batch_orders" THEN call.orders ELSE <<call.params>>

\* C29: while and after new_batch_orders, new_algo_order or one of the three
\* helpers runs, whether it returns or raises, every mapping the caller
\* passed has the keys and values it had before the call: the type as
\* written, quantity and reduceOnly still there; what went on the wire was
\* built on copies.
C29_CallerMappingsUntouched ==
    call.name \in {"new_batch_orders", "new_algo_order", "new_stop_loss_order",
                   "new_take_profit_order", "new_trailing_stop_order"} =>
        /\ Len(theirs) = Len(C29_Passed)
        /\ \A i \in DOMAIN theirs :
              /\ Keys(theirs[i]) = Keys(C29_Passed[i])
              /\ \A key \in Keys(theirs[i]) : Get(theirs[i], key) = Get(C29_Passed[i], key)
              /\ theirs[i] = C29_Passed[i]

\* a batch whose first order is take_profit in lower case and whose second
\* closes the position with a quantity returned: the requests carried
\* TAKE_PROFIT and no quantity, the caller's orders still say take_profit and
\* still have the quantity
C29_Witness ==
    /\ call.name = "new_batch_orders"
    /\ pc = "done"
    /\ outcome.kind = "ok"
    /\ Len(theirs) = 2
    /\ Len(wire) = 2
    /\ Get(theirs[1], "type") = Str(Lower(TAKE_PROFIT))
    /\ Get(WireParams(wire[1]), "type") = Str(TAKE_PROFIT)
    /\ Has(theirs[2], "quantity")
    /\ ~Has(WireParams(wire[2]), "quantity")

\* a stop-loss helper call closing the position raised after its request was
\* refused
C29_WitnessHelper ==
    /\ call.name = "new_stop_loss_order"
    /\ pc = "done"
    /\ outcome.kind = "error"
    /\ Len(wire) = 1
    /\ Has(theirs[1], "quantity")
    /\ ~Has(theirs[1], "type")
    /\ ~Has(WireParams(wire[1]), "quantity")

-----------------------------------------------------------------------------
(* Two threads calling new_order on one client.                            *)
(*                                                                         *)
(* Here call, pc, frame, calls, resps, outcome and theirs hold one value   *)
(* per thread; sent holds, per thread, the request it has prepared and not *)
(* yet handed to the session; wire is the one sequence of the requests     *)
(* handed to the shared session, each with the thread it came from.  A     *)
(* thread can be overtaken between any two of: entering new_order,         *)
(* signing, handing the request over, getting the answer.                  *)

Threads == {1, 2}
PerThread(x) == [t \in Threads |-> x]

ConcInputs ==
    {Symbol \o Side \o Type(MARKET) \o Quantity,
     Symbol \o Side \o Type(Lower(STOP_MARKET)) \o StopPrice,
     Symbol \o Side \o Type(STOP) \o KV("_force_rest_route", True)}

ConcClients ==
    {__init__(Str(<<"k">>), Str(<<"s">>), a, "default", <<0>>) : a \in {"default", "false"}}

\* the answers the threads meet: an acknowledgement, the migration error, an
\* unavailable backend, a failed connection
ConcResponses(http, n) ==
    {r \in Responses(http, n) :
        \/ r.kind = "network"
        \/ r.status = 503
        \/ r.kind = "ok" /\ r.json /\ r.body.t = "dict"
        \/ r.kind = "error" /\ r.json /\ Get(r.body.j, "code") = MigrationCode}

\* variant: a request equal, timestamp and signature aside, to one already
\* handed over is not sent again
session_request_deduplicating(log, t, http) ==
    LET body(h) == Del(Del(WireParams(h), "timestamp"), "signature")
    IN  IF \E i \in DOMAIN log :
              /\ log[i].http.method = http.method
              /\ log[i].http.url = http.url
              /\ body(log[i].http) = body(http)
        THEN log
        ELSE Append(log, [by |-> t, http |-> http])

\* self.session.request(...): every call hands its own request to the session
session_request(log, t, http) == Append(log, [by |-> t, http |-> http])

\* the positions in wire of the requests of thread t
SentBy(t) == {i \in DOMAIN wire : wire[i].by = t}
LastOf(S) == CHOOSE i \in S : \A j \in S : j <= i

\* time.time() is shared: a reading is the latest reading so far or a later one
Readings ==
    {Get(WireParams(wire[i].http), "timestamp").n : i \in DOMAIN wire}
    \cup {Get(WireParams(sent[t][1]), "timestamp").n : t \in {u \in Threads : sent[u] # <<>>}}
    \cup {1}
ClockNow == LastOf(Readings)

\* the handler of thread t went as far as `step`
ConcApply(t, step) ==
    IF step.req = NoReq
    THEN /\ outcome' = [outcome EXCEPT ![t] = step.out]
         /\ pc' = [pc EXCEPT ![t] = "done"]
         /\ frame' = [frame EXCEPT ![t] = NoFrame]
         /\ UNCHANGED calls
    ELSE /\ calls' = [calls EXCEPT ![t] = Append(@, step.req)]
         /\ frame' = [frame EXCEPT ![t] = step.frame]
         /\ pc' = [pc EXCEPT ![t] = "ready"]
         /\ UNCHANGED outcome

ConcInit ==
    /\ client \in ConcClients
    /\ call = PerThread(NoCall)
    /\ pc = PerThread("idle")
    /\ frame = PerThread(NoFrame)
    /\ calls = PerThread(<<>>)
    /\ wire = <<>>
    /\ sent = PerThread(<<>>)
    /\ resps = PerThread(<<>>)
    /\ outcome = PerThread(NoOutcome)
    /\ theirs = PerThread(<<>>)

\* a thread calls new_order(**p): the handler runs up to _request
Enter ==
    \E t \in Threads, p \in ConcInputs :
        /\ pc[t] = "idle"
        /\ call' = [call EXCEPT ![t] = Call("new_order", p)]
        /\ theirs' = [theirs EXCEPT ![t] =
                         <<Written(kwargs("caller"), p,
                                   IfRequired(p, <<"symbol", "side", "type">>,
                                              Del(NormalizedCopy(p), "_force_rest_route")))>>]
        /\ ConcApply(t, new_order(client, p))
        /\ UNCHANGED <<client, wire, sent, resps>>

\* _request cleans and signs the parameters of the thread's pending request
Sign ==
    \E t \in Threads, now \in {ClockNow, ClockNow + 1} :
        /\ pc[t] = "ready"
        /\ sent' = [sent EXCEPT ![t] = <<SessionRequest(client, calls[t][Len(calls[t])], now)>>]
        /\ pc' = [pc EXCEPT ![t] = "signed"]
        /\ UNCHANGED <<client, call, frame, calls, wire, resps, outcome, theirs>>

\* the thread hands its prepared request to the session
Send ==
    \E t \in Threads :
        /\ pc[t] = "signed"
        /\ wire' = session_request(wire, t, sent[t][1])
        /\ sent' = [sent EXCEPT ![t] = <<>>]
        /\ pc' = [pc EXCEPT ![t] = "wait"]
        /\ UNCHANGED <<client, call, frame, calls, resps, outcome, theirs>>

\* the session comes back to the thread (max_retries is 0: one attempt), and
\* its handler runs on, to its end or to its next _request
Answer ==
    \E t \in Threads :
        /\ pc[t] = "wait"
        /\ SentBy(t) # {}
        /\ \E a \in ConcResponses(wire[LastOf(SentBy(t))].http, LastOf(SentBy(t))) :
              LET r == IF a.kind = "network" \/ ShouldRetry(wire[LastOf(SentBy(t))].http.method, a)
                       THEN RequestException(a) ELSE a
              IN  /\ resps' = [resps EXCEPT ![t] = Append(@, r)]
                  /\ ConcApply(t, Continue(client, frame[t], r, Len(resps[t]) + 1))
        /\ UNCHANGED <<client, call, wire, sent, theirs>>

ConcNext ==
    \/ Enter
    \/ Sign
    \/ Send
    \/ Answer

ConcSpec == ConcInit /\ [][ConcNext]_vars

-----------------------------------------------------------------------------
(* C30 *)

\* the requests thread t has handed to the session, in order
C30_RequestsOf(t) ==
    LET mine == SelectSeq(wire, LAMBDA w : w.by = t)
    IN  [i \in DOMAIN mine |-> mine[i].http]

\* request `http` is the signed form of what _request was handed as `req`:
\* the thread's own parameters, under a signature over them
C30_Own(t, req, http) ==
    LET p == WireParams(http)
    IN  /\ http.method = req.method
        /\ http.url[2] = req.path
        /\ Del(Del(Del(p, "timestamp"), "recvWindow"), "signature") = req.params
        /\ \A key \in {"symbol", "side", "quantity", "stopPrice"} :
              Get(p, key) = Get(call[t].params, key)
        /\ Get(p, "type") = Str(TypeText(call[t].params))
        /\ Get(p, "signature") = Hmac(client.api_secret, UrlEncode(Del(p, "signature")))

C30_Independent ==
    \A t \in Threads :
        /\ theirs[t] = (IF call[t] = NoCall THEN <<>> ELSE <<call[t].params>>)
        /\ LET mine == C30_RequestsOf(t)
           IN  /\ Len(mine) = (IF pc[t] \in {"wait", "done"} THEN Len(calls[t])
                               ELSE IF calls[t] = <<>> THEN 0 ELSE Len(calls[t]) - 1)
               /\ \A i \in DOMAIN mine : C30_Own(t, calls[t][i], mine[i])
               /\ Len(resps[t]) <= Len(mine)
        /\ pc[t] = "done" => /\ calls[t] # <<>>
                             /\ Len(resps[t]) = Len(calls[t])
                             /\ outcome[t].kind \in {"ok", "error"}

\* C30: two new_order calls running concurrently on one client, with equal
\* parameters or not and however their steps interleave, each hand their own
\* signed request to the session for every request they make (none is
\* dropped as a duplicate, none waits for the other), each request carrying
\* the parameters of its own call under a signature over them; the caller's
\* mapping of neither call changes; and no step changes the client's
\* configuration.
C30_ConcurrentCallsIndependent ==
    /\ []C30_Independent
    /\ [][client' = client]_vars

\* both threads called with the same parameters and both are done: two
\* requests, equal but for timestamp and signature, are on the wire
C30_Witness ==
    /\ call[1].name = "new_order"
    /\ call[1] = call[2]
    /\ pc[1] = "done" /\ pc[2] = "done"
    /\ outcome[1].kind = "ok" /\ outcome[2].kind = "ok"
    /\ Len(wire) = 2
    /\ wire[1].by = 2 /\ wire[2].by = 1
    /\ Get(WireParams(wire[1].http), "timestamp") # Get(WireParams(wire[2].http), "timestamp")
    /\ Get(WireParams(wire[1].http), "signature") # Get(WireParams(wire[2].http), "signature")
    /\ Del(Del(WireParams(wire[1].http), "timestamp"), "signature")
          = Del(Del(WireParams(wire[2].http), "timestamp"), "signature")

====
